---- MODULE Spec2Model ----
(***************************************************************************)
(* HMI state controller of sdl_core (application_manager) and the          *)
(* remote_control PolicyHelper.                                            *)
(*                                                                         *)
(* The state controller implementation is not part of the sources; its     *)
(* operations are modelled from the design specification and from what     *)
(* state_controller_test.cc expects of them.  The HmiState projections,    *)
(* the application fixtures and the state fixtures are taken from the test *)
(* source.                                                                 *)
(***************************************************************************)
EXTENDS Integers, Sequences, FiniteSets, TLC

\* ----------------------------------------------------------------- bounds
\* applications registered at the same time
MaxApps == 2
\* applications registered at the same time when only SetRegularState is called
MaxResolverApps == 3
\* applications that are being resumed at the same time
MaxResuming == 1
\* system-wide interruptions (temporary states) active at the same time
MaxActive == 1
\* activation requests waiting for their response at the same time
MaxPending == 1
\* system-wide interruptions active at the same time when states are postponed
MaxLayers == 2

\* ------------------------------------------------------------ enumerations
HMILevel == {"FULL", "LIMITED", "BACKGROUND", "NONE"}
AudioStreamingState == {"AUDIBLE", "ATTENUATED", "NOT_AUDIBLE"}
VideoStreamingState == {"STREAMABLE", "NOT_STREAMABLE"}
SystemContext == {"MAIN", "VRSESSION", "MENU", "HMI_OBSCURED", "ALERT"}
INVALID_ENUM == "INVALID_ENUM"

\* temporary state ids raised by system-wide events
SystemStateIDs ==
  {"VR_SESSION", "TTS_SESSION", "PHONE_CALL", "SAFETY_MODE",
   "AUDIO_SOURCE", "EMBEDDED_NAVI", "DEACTIVATE_HMI"}
\* temporary state ids raised for one streaming application
StreamingStateIDs == {"VIDEO_STREAMING", "NAVI_STREAMING"}
StateID == SystemStateIDs \cup StreamingStateIDs

CreateHmiState(level, audio, video, context) ==
  [hmi_level |-> level, audio_streaming_state |-> audio,
   video_streaming_state |-> video, system_context |-> context]

\* ------------------------------------------------------------ state fixtures
UninitializedState ==
  CreateHmiState(INVALID_ENUM, INVALID_ENUM, INVALID_ENUM, INVALID_ENUM)
NoneState == CreateHmiState("NONE", "NOT_AUDIBLE", "NOT_STREAMABLE", "MAIN")
FullState == CreateHmiState("FULL", "NOT_AUDIBLE", "NOT_STREAMABLE", "MAIN")
FullAudibleState == CreateHmiState("FULL", "AUDIBLE", "NOT_STREAMABLE", "MAIN")
LimitedAudibleState ==
  CreateHmiState("LIMITED", "AUDIBLE", "NOT_STREAMABLE", "MAIN")
FullAudibleStreamableState ==
  CreateHmiState("FULL", "AUDIBLE", "STREAMABLE", "MAIN")
LimitedAudibleStreamableState ==
  CreateHmiState("LIMITED", "AUDIBLE", "STREAMABLE", "MAIN")
BackgroundState ==
  CreateHmiState("BACKGROUND", "NOT_AUDIBLE", "NOT_STREAMABLE", "MAIN")

\* ------------------------------------------------------------- applications
AppIds ==
  {"simple_app", "projection_app", "media_app", "navi_app", "vc_app",
   "media_navi_vc_app"}

is_media_application(app) == app \in {"media_app", "media_navi_vc_app"}
is_navi(app) == app \in {"navi_app", "media_navi_vc_app"}
is_voice_communication_supported(app) ==
  app \in {"vc_app", "media_navi_vc_app"}
mobile_projection_enabled(app) == app = "projection_app"

IsAudioApplication(app) ==
  is_media_application(app) \/ is_navi(app)
    \/ is_voice_communication_supported(app)
IsVideoApplication(app) == is_navi(app) \/ mobile_projection_enabled(app)

\* the exclusivity classes an application belongs to
AppClasses(app) ==
  (IF is_media_application(app) THEN {"MEDIA"} ELSE {})
    \cup (IF is_navi(app) THEN {"NAVI"} ELSE {})
    \cup (IF is_voice_communication_supported(app) THEN {"VOICE_COMM"} ELSE {})

\* ------------------------------------------------------- states of the tests
valid_states_for_not_audio_app ==
  {CreateHmiState("NONE", "NOT_AUDIBLE", "NOT_STREAMABLE", c) :
     c \in SystemContext}
    \cup {BackgroundState, FullState}

valid_states_for_audio_app ==
  {CreateHmiState("NONE", "NOT_AUDIBLE", "NOT_STREAMABLE", c) :
     c \in SystemContext}
    \cup {BackgroundState, LimitedAudibleState,
          CreateHmiState("LIMITED", "ATTENUATED", "NOT_STREAMABLE", "MAIN"),
          FullState, FullAudibleState}

common_invalid_states ==
  {CreateHmiState(INVALID_ENUM, "NOT_AUDIBLE", "NOT_STREAMABLE", "MAIN"),
   CreateHmiState("NONE", INVALID_ENUM, "NOT_STREAMABLE", "MAIN"),
   CreateHmiState("NONE", "NOT_AUDIBLE", "NOT_STREAMABLE", INVALID_ENUM),
   CreateHmiState(INVALID_ENUM, INVALID_ENUM, "NOT_STREAMABLE", "MAIN"),
   CreateHmiState("NONE", INVALID_ENUM, "NOT_STREAMABLE", INVALID_ENUM),
   CreateHmiState(INVALID_ENUM, INVALID_ENUM, "NOT_STREAMABLE", INVALID_ENUM)}

\* --------------------------------------------------- HmiState projections
\* Each temporary HmiState computes its four fields from its parent state.
IsStreamableHMILevel(level) == level \in {"FULL", "LIMITED"}

\* audio of a TTS layer, and of a streaming layer over a non-navi application
AttenuatedAudio(parent, attenuated_supported) ==
  IF attenuated_supported
       /\ IsStreamableHMILevel(parent.hmi_level)
       /\ parent.audio_streaming_state \in {"AUDIBLE", "ATTENUATED"}
  THEN "ATTENUATED"
  ELSE "NOT_AUDIBLE"

\* a VR session that leaves attenuated audio as it is
VRHmiStateKeepsAttenuated(app, parent) ==
  [parent EXCEPT
     !.audio_streaming_state =
        IF @ = "ATTENUATED" THEN "ATTENUATED" ELSE "NOT_AUDIBLE"]

VRHmiState(app, parent) ==
  [parent EXCEPT !.audio_streaming_state = "NOT_AUDIBLE"]

\* a TTS session that attenuates every application at LIMITED or FULL
TTSHmiStateByLevel(app, parent, attenuated_supported) ==
  [parent EXCEPT
     !.audio_streaming_state =
        IF attenuated_supported /\ IsStreamableHMILevel(parent.hmi_level)
        THEN "ATTENUATED"
        ELSE "NOT_AUDIBLE"]

TTSHmiState(app, parent, attenuated_supported) ==
  [parent EXCEPT
     !.audio_streaming_state = AttenuatedAudio(parent, attenuated_supported)]

\* a phone call that treats a media and navi application as a media one
PhoneCallHmiStateMediaFirst(app, parent) ==
  IF is_media_application(app)
  THEN [parent EXCEPT
          !.hmi_level = IF IsStreamableHMILevel(@) THEN "BACKGROUND" ELSE @,
          !.audio_streaming_state = "NOT_AUDIBLE"]
  ELSE IF is_navi(app)
  THEN [parent EXCEPT
          !.hmi_level = IF IsStreamableHMILevel(@) THEN "LIMITED" ELSE @,
          !.audio_streaming_state = "NOT_AUDIBLE"]
  ELSE parent

\* a phone call that limits the navi application whatever its level
PhoneCallHmiStateAnyLevel(app, parent) ==
  IF is_navi(app)
  THEN [parent EXCEPT
          !.hmi_level = "LIMITED",
          !.audio_streaming_state = "NOT_AUDIBLE"]
  ELSE IF is_media_application(app)
  THEN [parent EXCEPT
          !.hmi_level = IF IsStreamableHMILevel(@) THEN "BACKGROUND" ELSE @,
          !.audio_streaming_state = "NOT_AUDIBLE"]
  ELSE parent

PhoneCallHmiState(app, parent) ==
  IF is_navi(app)
  THEN [parent EXCEPT
          !.hmi_level = IF IsStreamableHMILevel(@) THEN "LIMITED" ELSE @,
          !.audio_streaming_state = "NOT_AUDIBLE"]
  ELSE IF is_media_application(app)
  THEN [parent EXCEPT
          !.hmi_level = IF IsStreamableHMILevel(@) THEN "BACKGROUND" ELSE @,
          !.audio_streaming_state = "NOT_AUDIBLE"]
  ELSE parent

SafetyModeHmiState(app, parent) ==
  [parent EXCEPT !.audio_streaming_state = "NOT_AUDIBLE"]

\* a streaming layer that replaces the audio of the navi application too
NaviStreamingHmiStateAnyApp(app, parent, attenuated_supported) ==
  [parent EXCEPT
     !.audio_streaming_state = AttenuatedAudio(parent, attenuated_supported)]

NaviStreamingHmiState(app, parent, attenuated_supported) ==
  IF is_navi(app)
  THEN parent
  ELSE [parent EXCEPT
          !.audio_streaming_state =
             AttenuatedAudio(parent, attenuated_supported)]

AudioSourceHmiState(app, parent) ==
  [parent EXCEPT !.audio_streaming_state = "NOT_AUDIBLE"]

EmbeddedNaviHmiState(app, parent) == parent

DeactivateHMIState(app, parent) ==
  [parent EXCEPT !.hmi_level = "NONE", !.audio_streaming_state = "NOT_AUDIBLE"]

\* the layer of one state id applied on top of its parent
ProjectState(state_id, app, parent, attenuated_supported) ==
  CASE state_id = "VR_SESSION" -> VRHmiState(app, parent)
    [] state_id = "TTS_SESSION" ->
         TTSHmiState(app, parent, attenuated_supported)
    [] state_id = "PHONE_CALL" -> PhoneCallHmiState(app, parent)
    [] state_id = "SAFETY_MODE" -> SafetyModeHmiState(app, parent)
    [] state_id \in StreamingStateIDs ->
         NaviStreamingHmiState(app, parent, attenuated_supported)
    [] state_id = "AUDIO_SOURCE" -> AudioSourceHmiState(app, parent)
    [] state_id = "EMBEDDED_NAVI" -> EmbeddedNaviHmiState(app, parent)
    [] state_id = "DEACTIVATE_HMI" -> DeactivateHMIState(app, parent)

\* the top of a stack of layers: each layer's parent is the layer below it
RECURSIVE ComposeState(_, _, _, _)
ComposeState(app, regular_state, layers, attenuated_supported) ==
  IF layers = << >>
  THEN regular_state
  ELSE ProjectState(layers[Len(layers)], app,
                    ComposeState(app, regular_state,
                                 SubSeq(layers, 1, Len(layers) - 1),
                                 attenuated_supported),
                    attenuated_supported)

\* ------------------------------------------------------------------- state
\* ------------------------------------------------------ remote control
\* PrimaryDevice() of the service when no device is the primary one
NoDevice == 0
MaxDevices == 2
DeviceHandles == 1..MaxDevices
\* the rank strings: "NONE" stands for every string that is no known rank
DeviceRanks == {"DRIVER", "PASSENGER", "NONE"}
\* app->device(): the applications are spread over the devices
device(app) ==
  CASE app \in {"simple_app", "navi_app"} -> 1
    [] app \in {"media_app", "vc_app"} -> 2
    [] OTHER -> MaxDevices

\* a PASSENGER rank that resets the primary device whatever the device
ChangeDeviceRankResetAlways(primary, device_handle, rank) ==
  IF rank = "DRIVER"
  THEN device_handle
  ELSE IF rank = "PASSENGER"
  THEN NoDevice
  ELSE primary

\* the primary device after ChangeDeviceRank(device_handle, rank)
ChangeDeviceRank(primary, device_handle, rank) ==
  IF rank = "DRIVER"
  THEN device_handle
  ELSE IF rank = "PASSENGER"
  THEN IF primary = device_handle THEN NoDevice ELSE primary
  ELSE primary

\* the flags after MarkAppOnPrimaryDevice(app, device_handle)
MarkAppOnPrimaryDevice(flags, app, device_handle) ==
  LET is_driver == (device(app) = device_handle)
  IN [flags EXCEPT ![app] = <<is_driver>>]

\* the flags after SetIsAppOnPrimaryDevice(app)
SetIsAppOnPrimaryDevice(flags, app, primary) ==
  MarkAppOnPrimaryDevice(flags, app, primary)

VARIABLES
  applications,          \* registered applications, in registration order
  regular,               \* application -> its Regular HmiState
  hmi_states,            \* application -> its temporary layers, bottom-up
  postponed,             \* application -> << >> or <<postponed HmiState>>
  is_resuming,           \* application -> whether it is being resumed
  active_states,         \* system-wide temporary states, in start order
  waiting_for_activate,  \* pending activations [corr_id, app, state]
  attenuated_supported,  \* is_attenuated_supported() of the head unit
  primary_device,        \* PrimaryDevice() of the remote control service
  is_on_driver_device,   \* application -> << >> or <<the flag of its extension>>
  rank_calls             \* the ChangeDeviceRank calls made, in their order

vars ==
  <<applications, regular, hmi_states, postponed, is_resuming, active_states,
    waiting_for_activate, attenuated_supported, primary_device,
    is_on_driver_device, rank_calls>>

\* the remote control service is left alone
PolicyUnchanged ==
  UNCHANGED <<primary_device, is_on_driver_device, rank_calls>>

Registered == {applications[i] : i \in 1..Len(applications)}

\* The part of the state an operation of the controller works on, and `out`,
\* the messages the operation has sent so far, in the order it sent them.
World ==
  [regular |-> regular, hmi_states |-> hmi_states, postponed |-> postponed,
   waiting |-> waiting_for_activate, out |-> << >>]

\* ------------------------------------------------------------ notifications
Message(name, app, from, to) ==
  [name |-> name, app |-> app, from |-> from, to |-> to]
SendHMIStatusNotification(app) ==
  Message("SendHMIStatusNotification", app, "-", "-")
OnHMILevelChanged(app, from, to) == Message("OnHMILevelChanged", app, from, to)
ResetDataInNone(app) == Message("ResetDataInNone", app, "-", "-")
ActivateAppRequest(app, corr_id) ==
  Message("BasicCommunication_ActivateApp", app, "-", corr_id)

CurrentHmiState(w, app) ==
  ComposeState(app, w.regular[app], w.hmi_states[app], attenuated_supported)

\* the notifications sent whether or not the state has changed
OnStateChangedAlways(w, app, old_state, new_state) ==
  [w EXCEPT
     !.out = @ \o <<SendHMIStatusNotification(app),
                    OnHMILevelChanged(app, old_state.hmi_level,
                                      new_state.hmi_level)>>
               \o (IF new_state.hmi_level = "NONE"
                   THEN <<ResetDataInNone(app)>>
                   ELSE << >>)]

\* the data reset only when the level NONE is entered from another level
OnStateChangedResetOnEntry(w, app, old_state, new_state) ==
  IF old_state = new_state
  THEN w
  ELSE [w EXCEPT
          !.out = @ \o <<SendHMIStatusNotification(app),
                         OnHMILevelChanged(app, old_state.hmi_level,
                                           new_state.hmi_level)>>
                    \o (IF new_state.hmi_level = "NONE"
                           /\ old_state.hmi_level # "NONE"
                        THEN <<ResetDataInNone(app)>>
                        ELSE << >>)]

OnStateChanged(w, app, old_state, new_state) ==
  IF old_state = new_state
  THEN w
  ELSE [w EXCEPT
          !.out = @ \o <<SendHMIStatusNotification(app),
                         OnHMILevelChanged(app, old_state.hmi_level,
                                           new_state.hmi_level)>>
                    \o (IF new_state.hmi_level = "NONE"
                        THEN <<ResetDataInNone(app)>>
                        ELSE << >>)]

\* a Regular state installed and reported without comparing the Current states
SetupRegularHmiStateReported(w, app, state) ==
  LET w1 == [w EXCEPT !.regular[app] = state]
  IN [w1 EXCEPT
        !.out = @ \o <<SendHMIStatusNotification(app),
                       OnHMILevelChanged(app, CurrentHmiState(w, app).hmi_level,
                                         CurrentHmiState(w1, app).hmi_level)>>]

\* install a Regular state and report the change of the Current state
SetupRegularHmiState(w, app, state) ==
  LET w1 == [w EXCEPT !.regular[app] = state]
  IN OnStateChanged(w1, app, CurrentHmiState(w, app), CurrentHmiState(w1, app))

\* ---------------------------------------------------------- conflict resolver
\* two audio applications taken for the same type whatever their classes
IsSameAppTypeAnyAudio(app1, app2) ==
  IsAudioApplication(app1) = IsAudioApplication(app2)

\* two applications taken for the same type only when their classes are equal
IsSameAppTypeEqualClasses(app1, app2) ==
  AppClasses(app1) = AppClasses(app2)

IsSameAppType(app1, app2) ==
  LET both_media == is_media_application(app1) /\ is_media_application(app2)
      both_navi == is_navi(app1) /\ is_navi(app2)
      both_vc == is_voice_communication_supported(app1)
                   /\ is_voice_communication_supported(app2)
      both_simple == ~IsAudioApplication(app1) /\ ~IsAudioApplication(app2)
  IN both_simple \/ both_media \/ both_navi \/ both_vc

\* A media-only application that holds LIMITED is left where it is when an
\* application that is media and also navi or voice communication takes FULL.
MediaOnlyKeepsLimited(applied, state, to_resolve, cur_state) ==
  /\ state.hmi_level = "FULL"
  /\ cur_state.hmi_level = "LIMITED"
  /\ AppClasses(to_resolve) = {"MEDIA"}
  /\ "MEDIA" \in AppClasses(applied)
  /\ AppClasses(applied) # {"MEDIA"}

\* another audio application of to_resolve's class already holds LIMITED
ClassHoldsLimited(applied, to_resolve, snapshot) ==
  \E other \in Registered \ {applied, to_resolve} :
    /\ AppClasses(other) \cap AppClasses(to_resolve) # {}
    /\ snapshot[other].hmi_level = "LIMITED"

\* a demoted application that loses its audio at every level
ResolvedAudioStateNotAudible(result_hmi_level) == "NOT_AUDIBLE"

\* the audio of an application the resolver moves to result_hmi_level
ResolvedAudioState(result_hmi_level) ==
  IF result_hmi_level = "LIMITED" THEN "AUDIBLE" ELSE "NOT_AUDIBLE"

\* the Regular state of to_resolve once `applied` holds `state`
HmiLevelConflictResolver(applied, state, to_resolve, snapshot) ==
  LET cur_state == snapshot[to_resolve]
      applied_grabs_full == state.hmi_level = "FULL"
      applied_grabs_audio ==
        IsStreamableHMILevel(state.hmi_level) /\ IsAudioApplication(applied)
      to_resolve_handles_full == cur_state.hmi_level = "FULL"
      to_resolve_handles_audio ==
        IsStreamableHMILevel(cur_state.hmi_level)
          /\ IsAudioApplication(to_resolve)
      same_app_type == IsSameAppType(applied, to_resolve)
      result_hmi_level ==
        IF MediaOnlyKeepsLimited(applied, state, to_resolve, cur_state)
        THEN cur_state.hmi_level
        ELSE IF (applied_grabs_full /\ to_resolve_handles_full
                   /\ ~IsAudioApplication(to_resolve))
                  \/ (applied_grabs_audio /\ to_resolve_handles_audio
                        /\ same_app_type)
        THEN "BACKGROUND"
        ELSE IF applied_grabs_full /\ to_resolve_handles_full
        THEN IF ClassHoldsLimited(applied, to_resolve, snapshot)
             THEN "BACKGROUND"
             ELSE "LIMITED"
        ELSE cur_state.hmi_level
  IN IF result_hmi_level = cur_state.hmi_level
     THEN cur_state
     ELSE [cur_state EXCEPT
             !.hmi_level = result_hmi_level,
             !.audio_streaming_state = ResolvedAudioState(result_hmi_level)]

\* the other applications, in registration order, from position i on
RECURSIVE ResolveConflicts(_, _, _, _, _)
ResolveConflicts(w, app, state, snapshot, i) ==
  IF i > Len(applications)
  THEN w
  ELSE LET to_resolve == applications[i]
           resolved ==
             HmiLevelConflictResolver(app, state, to_resolve, snapshot)
           w1 == IF to_resolve = app \/ resolved = snapshot[to_resolve]
                 THEN w
                 ELSE SetupRegularHmiState(w, to_resolve, resolved)
       IN ResolveConflicts(w1, app, state, snapshot, i + 1)

\* the target's state installed with the conflict resolution left out
ApplyRegularStateUnresolved(w, app, state) ==
  SetupRegularHmiState(w, app, state)

\* the target's state installed and reported before the conflicts are resolved
ApplyRegularStateTargetFirst(w, app, state) ==
  LET snapshot == [w.regular EXCEPT ![app] = state]
  IN ResolveConflicts(SetupRegularHmiState(w, app, state),
                      app, state, snapshot, 1)

\* demote the conflicting applications, then install the target's state
ApplyRegularState(w, app, state) ==
  LET snapshot == [w.regular EXCEPT ![app] = state]
  IN SetupRegularHmiState(ResolveConflicts(w, app, state, snapshot, 1),
                          app, state)

\* a state taken for valid as soon as its level is one
IsValidHmiStateLevelOnly(state) == state.hmi_level \in HMILevel

IsValidHmiState(state) ==
  /\ state.hmi_level \in HMILevel
  /\ state.audio_streaming_state \in AudioStreamingState
  /\ state.video_streaming_state \in VideoStreamingState
  /\ state.system_context \in SystemContext

\* a correlation id that no pending activation uses
GetNextHMICorrelationID(w) ==
  CHOOSE id \in 1..(Cardinality(w.waiting) + 1) :
    /\ \A r \in w.waiting : r.corr_id # id
    /\ \A smaller \in 1..(id - 1) : \E r \in w.waiting : r.corr_id = smaller

\* no temporary state is ever seen as active
IsTempStateActiveForNever(w, app) == FALSE

IsTempStateActiveFor(w, app) == w.hmi_states[app] # << >>

\* the request sent to the head unit and the state applied without waiting
SendActivateAppAndApply(w, app, state) ==
  LET corr_id == GetNextHMICorrelationID(w)
  IN ApplyRegularState(
       [w EXCEPT
          !.out = @ \o <<ActivateAppRequest(app, corr_id)>>,
          !.waiting = @ \cup {[corr_id |-> corr_id, app |-> app,
                               state |-> state]}],
       app, state)

\* ask the head unit to activate app; state waits for the response
SendActivateApp(w, app, state) ==
  LET corr_id == GetNextHMICorrelationID(w)
  IN [w EXCEPT
        !.out = @ \o <<ActivateAppRequest(app, corr_id)>>,
        !.waiting = @ \cup {[corr_id |-> corr_id, app |-> app,
                             state |-> state]}]

\* a state accepted for an application that is not registered
SetRegularStateAnyApp(w, app, state, send_activate_app) ==
  IF ~IsValidHmiState(state)
  THEN w
  ELSE IF is_resuming[app] /\ IsTempStateActiveFor(w, app)
  THEN [w EXCEPT !.postponed[app] = <<state>>]
  ELSE IF send_activate_app /\ state.hmi_level = "FULL"
  THEN SendActivateApp(w, app, state)
  ELSE ApplyRegularState(w, app, state)

\* a postponed state that is not replaced by a later one
SetRegularStateKeepsFirst(w, app, state, send_activate_app) ==
  IF app \notin Registered \/ ~IsValidHmiState(state)
  THEN w
  ELSE IF is_resuming[app] /\ IsTempStateActiveFor(w, app)
  THEN [w EXCEPT !.postponed[app] = IF @ = << >> THEN <<state>> ELSE @]
  ELSE IF send_activate_app /\ state.hmi_level = "FULL"
  THEN SendActivateApp(w, app, state)
  ELSE ApplyRegularState(w, app, state)

SetRegularState(w, app, state, send_activate_app) ==
  IF app \notin Registered \/ ~IsValidHmiState(state)
  THEN w
  ELSE IF is_resuming[app] /\ IsTempStateActiveFor(w, app)
  THEN [w EXCEPT !.postponed[app] = <<state>>]
  ELSE IF send_activate_app /\ state.hmi_level = "FULL"
  THEN SendActivateApp(w, app, state)
  ELSE ApplyRegularState(w, app, state)

\* the overload that takes only the new level
SetRegularStateLevel(w, app, hmi_level) ==
  IF app \notin Registered
  THEN w
  ELSE SetRegularState(w, app,
                       [w.regular[app] EXCEPT !.hmi_level = hmi_level], TRUE)

\* ------------------------------------------------------- temporary states
HasState(layers, state_id) == \E i \in 1..Len(layers) : layers[i] = state_id
RemoveHMIState(layers, state_id) ==
  SelectSeq(layers, LAMBDA id : id # state_id)

StreamingStateFor(app) ==
  IF is_navi(app) THEN "NAVI_STREAMING" ELSE "VIDEO_STREAMING"
StreamingApps ==
  {app \in Registered : HasState(hmi_states[app], StreamingStateFor(app))}
\* interruptions in progress: system-wide ones and streaming applications
ActiveCount == Len(active_states) + Cardinality(StreamingApps)

\* only the Regular and the Current state count as active
IsStateActiveRegularOnly(state_id) == state_id \in {"REGULAR", "CURRENT"}

\* REGULAR and CURRENT always; a temporary state when some application has it
IsStateActive(state_id) ==
  \/ state_id \in {"REGULAR", "CURRENT"}
  \/ \E app \in Registered : HasState(hmi_states[app], state_id)

\* a start that adds a layer also when app has one of that id
HMIStateStartedAgain(w, app, state_id) ==
  LET w1 == [w EXCEPT !.hmi_states[app] = Append(@, state_id)]
  IN OnStateChanged(w1, app, CurrentHmiState(w, app), CurrentHmiState(w1, app))

HMIStateStarted(w, app, state_id) ==
  IF HasState(w.hmi_states[app], state_id)
  THEN w
  ELSE LET w1 == [w EXCEPT !.hmi_states[app] = Append(@, state_id)]
       IN OnStateChanged(w1, app, CurrentHmiState(w, app),
                         CurrentHmiState(w1, app))

\* a stop that takes every temporary state of app away
HMIStateStoppedAll(w, app, state_id) ==
  LET w1 == [w EXCEPT !.hmi_states[app] = << >>]
  IN OnStateChanged(w1, app, CurrentHmiState(w, app), CurrentHmiState(w1, app))

HMIStateStopped(w, app, state_id) ==
  LET w1 == [w EXCEPT !.hmi_states[app] = RemoveHMIState(@, state_id)]
  IN OnStateChanged(w1, app, CurrentHmiState(w, app), CurrentHmiState(w1, app))

\* the postponed state replayed and left in its slot
ApplyPostponedStateForAppKept(w, app) ==
  IF w.postponed[app] = << >>
  THEN w
  ELSE SetRegularState(w, app, w.postponed[app][1], FALSE)

\* the end of an interruption empties the slot and applies nothing
ApplyPostponedStateForAppDropped(w, app) ==
  [w EXCEPT !.postponed[app] = << >>]

\* replay a postponed state as a SetRegularState and empty the slot
ApplyPostponedStateForApp(w, app) ==
  IF w.postponed[app] = << >>
  THEN w
  ELSE SetRegularState([w EXCEPT !.postponed[app] = << >>], app,
                       w.postponed[app][1], FALSE)

\* the state started for the application registered first and no other
StartForFirstApplication(w, state_id, i) ==
  IF applications = << >>
  THEN w
  ELSE HMIStateStarted(w, applications[1], state_id)

RECURSIVE StartForEachApplication(_, _, _)
StartForEachApplication(w, state_id, i) ==
  IF i > Len(applications)
  THEN w
  ELSE StartForEachApplication(HMIStateStarted(w, applications[i], state_id),
                               state_id, i + 1)

RECURSIVE StopForEachApplication(_, _, _)
StopForEachApplication(w, state_id, i) ==
  IF i > Len(applications)
  THEN w
  ELSE StopForEachApplication(HMIStateStopped(w, applications[i], state_id),
                              state_id, i + 1)

RECURSIVE PostponedForEachApplication(_, _)
PostponedForEachApplication(w, i) ==
  IF i > Len(applications)
  THEN w
  ELSE PostponedForEachApplication(
         ApplyPostponedStateForApp(w, applications[i]), i + 1)

\* ------------------------------------------------------------------ actions
Init ==
  /\ applications = << >>
  /\ regular = [app \in AppIds |-> NoneState]
  /\ hmi_states = [app \in AppIds |-> << >>]
  /\ postponed = [app \in AppIds |-> << >>]
  /\ is_resuming = [app \in AppIds |-> FALSE]
  /\ active_states = << >>
  /\ waiting_for_activate = {}
  /\ attenuated_supported \in BOOLEAN
  /\ primary_device = NoDevice
  /\ is_on_driver_device = [app \in AppIds |-> << >>]
  /\ rank_calls = << >>

\* the controller's part of the next state is the world w; w.out was sent
Commit(w) ==
  /\ regular' = w.regular
  /\ hmi_states' = w.hmi_states
  /\ postponed' = w.postponed
  /\ waiting_for_activate' = w.waiting
  /\ PolicyUnchanged

\* the states a caller passes to SetRegularState
FixtureStates ==
  {NoneState, BackgroundState, LimitedAudibleState, FullState, FullAudibleState}
InputStates(app) ==
  ((IF IsAudioApplication(app)
    THEN valid_states_for_audio_app
    ELSE valid_states_for_not_audio_app) \cap FixtureStates)
    \cup {state \in common_invalid_states : state.system_context = "MAIN"}
DefaultHmiLevels == {"NONE", "BACKGROUND"}

\* a registration that leaves the active temporary states off the new stack
ApplicationRegisteredBare(w, app, default_level) ==
  LET default_state ==
        CreateHmiState(default_level, "NOT_AUDIBLE", "NOT_STREAMABLE", "MAIN")
      w1 == [w EXCEPT !.regular[app] = default_state]
  IN OnStateChanged(w1, app, w.regular[app], CurrentHmiState(w1, app))

\* the default Regular state under the temporary states that are active
ApplicationRegistered(w, app, default_level) ==
  LET default_state ==
        CreateHmiState(default_level, "NOT_AUDIBLE", "NOT_STREAMABLE", "MAIN")
      w1 == [w EXCEPT !.hmi_states[app] = active_states,
                      !.regular[app] = default_state]
  IN OnStateChanged(w1, app, w.regular[app], CurrentHmiState(w1, app))

OnApplicationRegistered(app, default_level, resuming) ==
  /\ app \notin Registered
  /\ Commit(ApplicationRegistered(World, app, default_level))
  /\ applications' = Append(applications, app)
  /\ is_resuming' = [is_resuming EXCEPT ![app] = resuming]
  /\ UNCHANGED <<active_states, attenuated_supported>>

\* an unregistration that leaves the pending activations of app behind
OnAppUnregisteredPending(app) ==
  /\ app \in Registered
  /\ applications' = SelectSeq(applications, LAMBDA a : a # app)
  /\ regular' = [regular EXCEPT ![app] = NoneState]
  /\ hmi_states' = [hmi_states EXCEPT ![app] = << >>]
  /\ postponed' = [postponed EXCEPT ![app] = << >>]
  /\ is_resuming' = [is_resuming EXCEPT ![app] = FALSE]
  /\ UNCHANGED <<waiting_for_activate, active_states, attenuated_supported>>
  /\ PolicyUnchanged

OnAppUnregistered(app) ==
  /\ app \in Registered
  /\ applications' = SelectSeq(applications, LAMBDA a : a # app)
  /\ regular' = [regular EXCEPT ![app] = NoneState]
  /\ hmi_states' = [hmi_states EXCEPT ![app] = << >>]
  /\ postponed' = [postponed EXCEPT ![app] = << >>]
  /\ is_resuming' = [is_resuming EXCEPT ![app] = FALSE]
  /\ waiting_for_activate' = {r \in waiting_for_activate : r.app # app}
  /\ UNCHANGED <<active_states, attenuated_supported>>
  /\ PolicyUnchanged

SetRegularStateCall(app, state, send_activate_app) ==
  /\ app \in Registered
  /\ LET w == SetRegularState(World, app, state, send_activate_app)
     IN Commit(w)
  /\ UNCHANGED <<applications, is_resuming, active_states,
                 attenuated_supported>>

SetRegularStateLevelCall(app, hmi_level) ==
  /\ app \in Registered
  /\ LET w == SetRegularStateLevel(World, app, hmi_level)
     IN Commit(w)
  /\ UNCHANGED <<applications, is_resuming, active_states,
                 attenuated_supported>>

\* a call for an application that is not registered
SetRegularStateUnknownApp(app, state, send_activate_app) ==
  /\ app \notin Registered
  /\ Commit(SetRegularState(World, app, state, send_activate_app))
  /\ UNCHANGED <<applications, is_resuming, active_states,
                 attenuated_supported>>

\* VR_Started, TTS_Started, OnEventChanged(.., is_active = true)
TempStateStarted(state_id) ==
  /\ Commit(StartForEachApplication(World, state_id, 1))
  /\ active_states' = IF HasState(active_states, state_id)
                      THEN active_states
                      ELSE Append(active_states, state_id)
  /\ UNCHANGED <<applications, is_resuming, attenuated_supported>>

\* VR_Stopped, TTS_Stopped, OnEventChanged(.., is_active = false)
TempStateStopped(state_id) ==
  /\ IF HasState(active_states, state_id)
     THEN Commit(PostponedForEachApplication(
                   StopForEachApplication(World, state_id, 1), 1))
     ELSE Commit(World)
  /\ active_states' = RemoveHMIState(active_states, state_id)
  /\ UNCHANGED <<applications, is_resuming, attenuated_supported>>

OnVideoStreamingStarted(app) ==
  /\ app \in Registered
  /\ Commit(HMIStateStarted(World, app, StreamingStateFor(app)))
  /\ UNCHANGED <<applications, is_resuming, active_states,
                 attenuated_supported>>

OnVideoStreamingStopped(app) ==
  /\ app \in Registered
  /\ IF app \in StreamingApps
     THEN Commit(ApplyPostponedStateForApp(
                   HMIStateStopped(World, app, StreamingStateFor(app)), app))
     ELSE Commit(World)
  /\ UNCHANGED <<applications, is_resuming, active_states,
                 attenuated_supported>>

HmiResults == {"SUCCESS", "REJECTED"}
\* the result codes of a failed activation
hmi_result ==
  {"ABORTED", "APPLICATION_NOT_REGISTERED", "CHAR_LIMIT_EXCEEDED",
   "DATA_NOT_AVAILABLE", "DISALLOWED", "DUPLICATE_NAME", "GENERIC_ERROR",
   "IGNORED", "INVALID_DATA", "INVALID_ENUM", "INVALID_ID", "IN_USE",
   "NO_APPS_REGISTERED", "NO_DEVICES_CONNECTED", "OUT_OF_MEMORY", "REJECTED",
   "RETRY", "TIMED_OUT", "TOO_MANY_PENDING_REQUESTS", "TRUNCATED_DATA",
   "UNSUPPORTED_REQUEST", "UNSUPPORTED_RESOURCE", "USER_DISALLOWED",
   "WARNINGS", "WRONG_LANGUAGE"}

\* a response that leaves the record of a failed activation pending
OnActivateAppResponseKept(w, corr_id, code) ==
  LET found == {r \in w.waiting : r.corr_id = corr_id}
  IN IF found = {} \/ code # "SUCCESS"
     THEN w
     ELSE LET r == CHOOSE r \in found : TRUE
          IN SetRegularState([w EXCEPT !.waiting = @ \ found], r.app, r.state,
                             FALSE)

\* a response that is taken for the answer to any pending activation
OnActivateAppResponseAnyId(w, corr_id, code) ==
  IF w.waiting = {} \/ code # "SUCCESS"
  THEN [w EXCEPT !.waiting = {r \in @ : r.corr_id # corr_id}]
  ELSE LET r == CHOOSE r \in w.waiting : TRUE
       IN SetRegularState([w EXCEPT !.waiting = @ \ {r}], r.app, r.state,
                          FALSE)

\* the pending record of corr_id is dropped; on SUCCESS its state is applied
OnActivateAppResponse(w, corr_id, code) ==
  LET found == {r \in w.waiting : r.corr_id = corr_id}
      w1 == [w EXCEPT !.waiting = @ \ found]
  IN IF found = {} \/ code # "SUCCESS"
     THEN w1
     ELSE LET r == CHOOSE r \in found : TRUE
          IN SetRegularState(w1, r.app, r.state, FALSE)

\* the response of the head unit to BasicCommunication.ActivateApp
ActivateAppResponse(corr_id, code) ==
  /\ Commit(OnActivateAppResponse(World, corr_id, code))
  /\ UNCHANGED <<applications, is_resuming, active_states,
                 attenuated_supported>>

\* BasicCommunication.OnAppActivated: an audio application below FULL asks
\* for FULL
OnEventOnAppActivated(w, app) ==
  IF app \notin Registered
  THEN w
  ELSE IF IsAudioApplication(app) /\ w.regular[app].hmi_level # "FULL"
  THEN SetRegularStateLevel(w, app, "FULL")
  ELSE w

\* a deactivation that sends an application of any level to the background
OnEventOnAppDeactivatedAnyLevel(w, app) ==
  IF app \notin Registered
  THEN w
  ELSE SetRegularState(
         w, app,
         [w.regular[app] EXCEPT !.hmi_level = "BACKGROUND",
                                !.audio_streaming_state = "NOT_AUDIBLE"],
         FALSE)

\* BasicCommunication.OnAppDeactivated: an application at FULL or LIMITED
\* goes to the background
OnEventOnAppDeactivated(w, app) ==
  IF app \notin Registered
  THEN w
  ELSE IF IsStreamableHMILevel(CurrentHmiState(w, app).hmi_level)
  THEN SetRegularState(
         w, app,
         [w.regular[app] EXCEPT !.hmi_level = "BACKGROUND",
                                !.audio_streaming_state = "NOT_AUDIBLE"],
         FALSE)
  ELSE w

OnAppActivated(app) ==
  /\ app \in Registered
  /\ Commit(OnEventOnAppActivated(World, app))
  /\ UNCHANGED <<applications, is_resuming, active_states,
                 attenuated_supported>>

OnAppDeactivated(app) ==
  /\ app \in Registered
  /\ Commit(OnEventOnAppDeactivated(World, app))
  /\ UNCHANGED <<applications, is_resuming, active_states,
                 attenuated_supported>>

\* the two events with the id of an application that is not registered
OnAppActivatedUnknownApp(app) ==
  /\ app \notin Registered
  /\ Commit(OnEventOnAppActivated(World, app))
  /\ UNCHANGED <<applications, is_resuming, active_states,
                 attenuated_supported>>

OnAppDeactivatedUnknownApp(app) ==
  /\ app \notin Registered
  /\ Commit(OnEventOnAppDeactivated(World, app))
  /\ UNCHANGED <<applications, is_resuming, active_states,
                 attenuated_supported>>

\* ------------------------------------------------------- specifications
\* the guards that keep the state space finite
CanRegister(max_apps, resuming) ==
  /\ Len(applications) < max_apps
  /\ resuming => Cardinality({app \in Registered : is_resuming[app]})
                   < MaxResuming
CanActivate == Cardinality(waiting_for_activate) < MaxPending
CanStart(already_active) == already_active \/ ActiveCount < MaxActive

\* the applications that register in the behaviours of Spec
ControllerApps == {"simple_app", "media_app", "media_navi_vc_app"}

Next ==
  \/ \E app \in ControllerApps, default_level \in DefaultHmiLevels,
        resuming \in BOOLEAN :
       /\ CanRegister(MaxApps, resuming)
       /\ OnApplicationRegistered(app, default_level, resuming)
  \/ \E app \in ControllerApps : OnAppUnregistered(app)
  \/ \E app \in ControllerApps, send_activate_app \in BOOLEAN :
       \E state \in InputStates(app) :
         /\ send_activate_app => CanActivate
         /\ SetRegularStateCall(app, state, send_activate_app)
  \/ \E app \in ControllerApps, hmi_level \in HMILevel :
       /\ hmi_level = "FULL" => CanActivate
       /\ SetRegularStateLevelCall(app, hmi_level)
  \/ \E app \in ControllerApps : SetRegularStateUnknownApp(app, FullState, FALSE)
  \/ \E state_id \in SystemStateIDs :
       /\ CanStart(HasState(active_states, state_id))
       /\ TempStateStarted(state_id)
  \/ \E state_id \in SystemStateIDs : TempStateStopped(state_id)
  \/ \E app \in ControllerApps :
       /\ CanStart(app \in StreamingApps)
       /\ OnVideoStreamingStarted(app)
  \/ \E app \in ControllerApps : OnVideoStreamingStopped(app)
  \/ \E corr_id \in 1..MaxPending, code \in HmiResults :
       ActivateAppResponse(corr_id, code)
  \/ \E app \in ControllerApps : CanActivate /\ OnAppActivated(app)
  \/ \E app \in ControllerApps : OnAppDeactivated(app)

Spec == Init /\ [][Next]_vars

\* registrations and SetRegularState calls only
NextResolver ==
  \/ \E app \in AppIds, default_level \in DefaultHmiLevels :
       /\ CanRegister(MaxResolverApps, FALSE)
       /\ OnApplicationRegistered(app, default_level, FALSE)
  \/ \E app \in AppIds :
       \E state \in InputStates(app) : SetRegularStateCall(app, state, FALSE)

SpecResolver == Init /\ [][NextResolver]_vars

\* resuming applications under interruptions that start and stop
PostponingStateIDs == {"VR_SESSION", "PHONE_CALL"}
NextPostponed ==
  \/ \E app \in ControllerApps, default_level \in DefaultHmiLevels,
        resuming \in BOOLEAN :
       /\ CanRegister(MaxApps, resuming)
       /\ OnApplicationRegistered(app, default_level, resuming)
  \/ \E app \in ControllerApps, send_activate_app \in BOOLEAN :
       \E state \in InputStates(app) :
         /\ send_activate_app => CanActivate
         /\ SetRegularStateCall(app, state, send_activate_app)
  \/ \E state_id \in PostponingStateIDs :
       /\ HasState(active_states, state_id) \/ Len(active_states) < MaxLayers
       /\ TempStateStarted(state_id)
  \/ \E state_id \in PostponingStateIDs : TempStateStopped(state_id)
  \/ \E corr_id \in 1..MaxPending, code \in HmiResults :
       ActivateAppResponse(corr_id, code)

SpecPostponed == Init /\ [][NextPostponed]_vars

\* activations that wait for a response while applications come and go
NextPending ==
  \/ \E app \in ControllerApps, default_level \in DefaultHmiLevels :
       /\ CanRegister(MaxApps, FALSE)
       /\ OnApplicationRegistered(app, default_level, FALSE)
  \/ \E app \in ControllerApps : OnAppUnregistered(app)
  \/ \E app \in ControllerApps, send_activate_app \in BOOLEAN :
       \E state \in InputStates(app) :
         /\ send_activate_app => CanActivate
         /\ SetRegularStateCall(app, state, send_activate_app)
  \/ \E corr_id \in 1..MaxPending, code \in HmiResults :
       ActivateAppResponse(corr_id, code)
  \/ \E app \in ControllerApps : CanActivate /\ OnAppActivated(app)
  \/ \E app \in ControllerApps : OnAppDeactivated(app)
  \/ \E app \in ControllerApps, send_activate_app \in BOOLEAN :
       SetRegularStateUnknownApp(app, FullState, send_activate_app)
  \/ \E app \in ControllerApps : OnAppActivatedUnknownApp(app)
  \/ \E app \in ControllerApps : OnAppDeactivatedUnknownApp(app)

SpecPending == Init /\ [][NextPending]_vars

\* ------------------------------------------------------------------ claims
ExclusivityClasses == {"MEDIA", "NAVI", "VOICE_COMM"}
HoldsAudio(state) ==
  state.audio_streaming_state = "AUDIBLE" /\ IsStreamableHMILevel(state.hmi_level)

\* C1: in every reachable state at most one registered application has a
\* Regular state whose level is FULL.
C1_AtMostOneFull ==
  \A app1, app2 \in Registered :
    regular[app1].hmi_level = "FULL" /\ regular[app2].hmi_level = "FULL"
      => app1 = app2

\* an application holds FULL and a FULL state applied to another one takes
\* FULL away from it
C1_Witness ==
  \E app1, app2 \in Registered :
    /\ app1 # app2
    /\ regular[app1].hmi_level = "FULL"
    /\ ~(is_resuming[app2] /\ IsTempStateActiveFor(World, app2))
    /\ LET w == SetRegularState(World, app2, FullState, FALSE)
       IN /\ w.regular[app2].hmi_level = "FULL"
          /\ w.regular[app1].hmi_level = "BACKGROUND"

\* C2: in every reachable state each exclusivity class has at most one
\* registered application of that class whose Regular state is AUDIBLE at
\* FULL or LIMITED.
C2_OneAudiblePerClass ==
  \A class \in ExclusivityClasses :
    \A app1, app2 \in Registered :
      /\ class \in AppClasses(app1) \cap AppClasses(app2)
      /\ HoldsAudio(regular[app1])
      /\ HoldsAudio(regular[app2])
      => app1 = app2

\* C3: in every reachable state the Current state of each registered
\* application has no INVALID field, is NOT_AUDIBLE for a non-audio
\* application, and is NOT_AUDIBLE at the levels NONE and BACKGROUND.
C3_CurrentStatesValid ==
  \A app \in Registered :
    LET current == CurrentHmiState(World, app)
    IN /\ IsValidHmiState(current)
       /\ ~IsAudioApplication(app)
            => current.audio_streaming_state = "NOT_AUDIBLE"
       /\ current.hmi_level \in {"NONE", "BACKGROUND"}
            => current.audio_streaming_state = "NOT_AUDIBLE"

\* what the claims about the resolver say of one SetRegularState call
SharedClasses(app1, app2) == AppClasses(app1) \cap AppClasses(app2)
PartialOverlap(app1, app2) ==
  SharedClasses(app1, app2) # {} /\ AppClasses(app1) # AppClasses(app2)
Demoted(state, level, audio) ==
  [state EXCEPT !.hmi_level = level, !.audio_streaming_state = audio]
Notified(w, app) == \E i \in 1..Len(w.out) : w.out[i].app = app
\* a call of SetRegularState(app, state, false) that makes state the Regular
\* state of app
Applies(app, state) ==
  /\ app \in Registered
  /\ UNCHANGED <<applications, is_resuming, active_states>>
  /\ regular'[app] = state
  /\ state \in InputStates(app)
  /\ IsValidHmiState(state)
  /\ SetRegularStateCall(app, state, FALSE)

\* C4: a FULL or LIMITED state applied to an audio target moves every other
\* audio application at FULL or LIMITED that shares a class with the target
\* to (BACKGROUND, NOT_AUDIBLE), all of them.
C4_SameClassDemoted ==
  [][\A app \in AppIds, state \in FixtureStates :
       (/\ IsAudioApplication(app)
        /\ IsStreamableHMILevel(state.hmi_level)
        /\ Applies(app, state))
       => \A other \in Registered \ {app} :
            (/\ IsAudioApplication(other)
             /\ IsStreamableHMILevel(regular[other].hmi_level)
             /\ SharedClasses(app, other) # {})
            => regular'[other]
                 = Demoted(regular[other], "BACKGROUND", "NOT_AUDIBLE")]_vars

\* C5: a FULL state applied to a target demotes every other application at
\* FULL in the same operation: a non-audio one to (BACKGROUND, NOT_AUDIBLE),
\* an audio one that shares no class with the target to (LIMITED, AUDIBLE)
\* unless another audio application of its class holds LIMITED, and to
\* (BACKGROUND, NOT_AUDIBLE) otherwise.
C5_FullDemotesFull ==
  [][\A app \in AppIds, state \in FixtureStates :
       (state.hmi_level = "FULL" /\ Applies(app, state))
       => \A other \in Registered \ {app} :
            regular[other].hmi_level = "FULL"
            => regular'[other]
                 = IF /\ IsAudioApplication(other)
                      /\ SharedClasses(app, other) = {}
                      /\ ~\E third \in Registered \ {app, other} :
                            /\ SharedClasses(third, other) # {}
                            /\ regular[third].hmi_level = "LIMITED"
                   THEN Demoted(regular[other], "LIMITED", "AUDIBLE")
                   ELSE Demoted(regular[other], "BACKGROUND",
                                "NOT_AUDIBLE")]_vars

\* the media application holds FULL and a FULL state applied to the navi
\* application, which shares no class with it, leaves it (LIMITED, AUDIBLE)
C5_Witness ==
  /\ {"navi_app", "media_app"} \subseteq Registered
  /\ regular["media_app"] = FullAudibleState
  /\ LET w == SetRegularState(World, "navi_app", FullAudibleState, FALSE)
     IN /\ w.regular["navi_app"] = FullAudibleState
        /\ w.regular["media_app"] = LimitedAudibleState

\* C6 as stated: when the target is granted FULL, another audio application
\* that shares some but not all classes with it is not sent to BACKGROUND: from
\* FULL it becomes (LIMITED, AUDIBLE), at (LIMITED, AUDIBLE) it is unchanged.
C6_PartialOverlapKept ==
  [][\A app \in AppIds, state \in FixtureStates :
       (state.hmi_level = "FULL" /\ Applies(app, state))
       => \A other \in Registered \ {app} :
            (IsAudioApplication(other) /\ PartialOverlap(app, other))
            => /\ regular[other].hmi_level = "FULL"
                    => regular'[other]
                         = Demoted(regular[other], "LIMITED", "AUDIBLE")
               /\ regular[other] = LimitedAudibleState
                    => regular'[other] = regular[other]]_vars

\* C6 amended: when the target is granted FULL, another audio application at
\* FULL or LIMITED that shares some but not all classes with it is sent to
\* (BACKGROUND, NOT_AUDIBLE) like one that shares all of them; only a
\* media-only application at LIMITED is left as it is.
C6_PartialOverlapDemoted ==
  [][\A app \in AppIds, state \in FixtureStates :
       (state.hmi_level = "FULL" /\ Applies(app, state))
       => \A other \in Registered \ {app} :
            (/\ IsAudioApplication(other)
             /\ PartialOverlap(app, other)
             /\ IsStreamableHMILevel(regular[other].hmi_level))
            => regular'[other]
                 = IF /\ AppClasses(other) = {"MEDIA"}
                      /\ regular[other].hmi_level = "LIMITED"
                   THEN regular[other]
                   ELSE Demoted(regular[other], "BACKGROUND",
                                "NOT_AUDIBLE")]_vars

\* the navi application holds (LIMITED, AUDIBLE) and a FULL state applied to
\* the media, navi and voice communication application sends it to BACKGROUND
C6_Witness ==
  /\ {"navi_app", "media_navi_vc_app"} \subseteq Registered
  /\ regular["navi_app"] = LimitedAudibleState
  /\ LET w == SetRegularState(World, "media_navi_vc_app", FullAudibleState,
                              FALSE)
     IN /\ w.regular["navi_app"] = BackgroundState
        /\ w.regular["media_navi_vc_app"] = FullAudibleState

\* C7: FULL granted to a non-audio target, or FULL or LIMITED granted to an
\* audio target, leaves every other application that is at (LIMITED, AUDIBLE)
\* and shares no class with the target unchanged and sends nothing for it.
C7_DisjointLimitedUnchanged ==
  [][\A app \in AppIds, state \in FixtureStates :
       (/\ state.hmi_level = "FULL"
             \/ (IsAudioApplication(app) /\ state.hmi_level = "LIMITED")
        /\ Applies(app, state))
       => \A other \in Registered \ {app} :
            (/\ regular[other] = LimitedAudibleState
             /\ SharedClasses(app, other) = {})
            => /\ regular'[other] = regular[other]
               /\ ~Notified(SetRegularState(World, app, state, FALSE),
                            other)]_vars

\* the media application holds (LIMITED, AUDIBLE), a simple application holds
\* FULL, and FULL applied to another non-audio application demotes the simple
\* one and leaves the media one alone
C7_Witness ==
  /\ {"media_app", "simple_app", "projection_app"} \subseteq Registered
  /\ regular["media_app"] = LimitedAudibleState
  /\ regular["simple_app"] = FullState
  /\ LET w == SetRegularState(World, "projection_app", FullState, FALSE)
     IN /\ w.regular["projection_app"] = FullState
        /\ w.regular["simple_app"] = BackgroundState
        /\ w.regular["media_app"] = LimitedAudibleState

\* what the claims about postponement and activation say of one call
Calls(app, state, send_activate_app) ==
  /\ app \in Registered
  /\ UNCHANGED <<applications, is_resuming, active_states>>
  /\ state \in InputStates(app)
  /\ IsValidHmiState(state)
  /\ SetRegularStateCall(app, state, send_activate_app)
Diverted(app) == is_resuming[app] /\ hmi_states[app] # << >>
OnlyPostponedChanges(app) ==
  /\ regular' = regular
  /\ hmi_states' = hmi_states
  /\ waiting_for_activate' = waiting_for_activate
  /\ \A other \in AppIds \ {app} : postponed'[other] = postponed[other]

\* C8: a SetRegularState with a valid state goes to the Postponed slot exactly
\* when the application is resuming and has an active temporary layer; then
\* no Regular or Current state changes, no other application changes and
\* nothing is sent.  Otherwise nothing is postponed and the state takes the
\* regular path: it is applied, or waits for the activation that was asked.
C8_PostponedExactlyWhenResuming ==
  [][\A app \in ControllerApps, state \in FixtureStates,
        send_activate_app \in BOOLEAN :
       Calls(app, state, send_activate_app)
       => IF Diverted(app)
          THEN /\ postponed'[app] = <<state>>
               /\ OnlyPostponedChanges(app)
               /\ SetRegularState(World, app, state, send_activate_app).out
                    = << >>
          ELSE /\ postponed' = postponed
               /\ IF send_activate_app /\ state.hmi_level = "FULL"
                  THEN \E r \in waiting_for_activate' :
                         r.app = app /\ r.state = state
                  ELSE regular'[app] = state]_vars

\* a resuming application under an interruption has a state in its slot that
\* differs from its Regular state
C8_Witness ==
  \E app \in Registered :
    /\ Diverted(app)
    /\ postponed[app] # << >>
    /\ postponed[app][1] # regular[app]

\* the postponed states applied in registration order, each as a state that
\* is not postponed again, from position i on
RECURSIVE ReplayAsImmediate(_, _)
ReplayAsImmediate(w, i) ==
  IF i > Len(applications)
  THEN w
  ELSE LET app == applications[i]
           w1 == IF w.postponed[app] = << >>
                 THEN w
                 ELSE ApplyRegularState([w EXCEPT !.postponed[app] = << >>],
                                        app, w.postponed[app][1])
       IN ReplayAsImmediate(w1, i + 1)

\* the same, a state staying in its slot while its application is resuming
\* and still has a temporary layer
RECURSIVE ReplayUnlessInterrupted(_, _)
ReplayUnlessInterrupted(w, i) ==
  IF i > Len(applications)
  THEN w
  ELSE LET app == applications[i]
           w1 == IF w.postponed[app] = << >>
                      \/ (is_resuming[app] /\ w.hmi_states[app] # << >>)
                 THEN w
                 ELSE ApplyRegularState([w EXCEPT !.postponed[app] = << >>],
                                        app, w.postponed[app][1])
       IN ReplayUnlessInterrupted(w1, i + 1)

Popped(state_id) == StopForEachApplication(World, state_id, 1)
SameEffect(actual, expected) ==
  /\ regular' = expected.regular
  /\ hmi_states' = expected.hmi_states
  /\ postponed' = expected.postponed
  /\ actual.out = expected.out

\* C9 as stated: the stop of an active temporary state T has the effect of
\* popping T and then applying each postponed state as an immediate
\* SetRegularState that is not postponed, and leaves every Postponed slot
\* empty.
C9_ReplayAsImmediate ==
  [][\A state_id \in PostponingStateIDs :
       (HasState(active_states, state_id) /\ TempStateStopped(state_id))
       => /\ SameEffect(PostponedForEachApplication(Popped(state_id), 1),
                        ReplayAsImmediate(Popped(state_id), 1))
          /\ \A app \in Registered : postponed'[app] = << >>]_vars

\* C9 amended: the stop of an active temporary state T pops T and then applies
\* the postponed state of each application that is left without a temporary
\* layer as an immediate SetRegularState, emptying its slot; the state of a
\* resuming application that still has a layer stays postponed, unapplied.
C9_ReplayUnlessInterrupted ==
  [][\A state_id \in PostponingStateIDs :
       (HasState(active_states, state_id) /\ TempStateStopped(state_id))
       => /\ SameEffect(PostponedForEachApplication(Popped(state_id), 1),
                        ReplayUnlessInterrupted(Popped(state_id), 1))
          /\ \A app \in Registered :
               hmi_states'[app] = << >> => postponed'[app] = << >>]_vars

\* an application has a postponed state under its only temporary layer, and
\* the stop of that layer makes the state its Regular state and reports it
C9_Witness ==
  \E app \in Registered :
    /\ postponed[app] # << >>
    /\ Len(active_states) = 1
    /\ LET w == PostponedForEachApplication(Popped(active_states[1]), 1)
       IN /\ w.regular[app] = postponed[app][1]
          /\ w.regular[app] # regular[app]
          /\ w.postponed[app] = << >>
          /\ Notified(w, app)

PendingUntilResponse ==
  \A r \in waiting_for_activate \ waiting_for_activate' :
    \E code \in HmiResults : ActivateAppResponse(r.corr_id, code)

\* C10 as stated: SetRegularState(app, s, true) with s at FULL sends one
\* ActivateApp request, registers one pending record until the response
\* arrives, changes no Regular or Current state and sends no notification.
C10_ActivationRequested ==
  [][/\ \A app \in ControllerApps, state \in FixtureStates :
          (state.hmi_level = "FULL" /\ Calls(app, state, TRUE))
          => LET w == SetRegularState(World, app, state, TRUE)
             IN /\ Len(w.out) = 1
                /\ w.out[1] = ActivateAppRequest(app, w.out[1].to)
                /\ waiting_for_activate'
                     = waiting_for_activate
                         \cup {[corr_id |-> w.out[1].to, app |-> app,
                                state |-> state]}
                /\ Cardinality(waiting_for_activate')
                     = Cardinality(waiting_for_activate) + 1
                /\ regular' = regular
                /\ hmi_states' = hmi_states
     /\ PendingUntilResponse]_vars

\* C10 amended: the same of a call that is not diverted to the Postponed
\* slot; a diverted call sends no request and registers no record.
C10_ActivationRequestedUnlessDiverted ==
  [][/\ \A app \in ControllerApps, state \in FixtureStates :
          (state.hmi_level = "FULL" /\ Calls(app, state, TRUE))
          => LET w == SetRegularState(World, app, state, TRUE)
             IN IF Diverted(app)
                THEN /\ w.out = << >>
                     /\ waiting_for_activate' = waiting_for_activate
                ELSE /\ Len(w.out) = 1
                     /\ w.out[1] = ActivateAppRequest(app, w.out[1].to)
                     /\ waiting_for_activate'
                          = waiting_for_activate
                              \cup {[corr_id |-> w.out[1].to, app |-> app,
                                     state |-> state]}
                     /\ Cardinality(waiting_for_activate')
                          = Cardinality(waiting_for_activate) + 1
                     /\ regular' = regular
                     /\ hmi_states' = hmi_states
                     /\ postponed' = postponed
     /\ PendingUntilResponse]_vars

\* an activation to FULL waits for its response while its application is
\* below FULL
C10_Witness ==
  \E r \in waiting_for_activate :
    /\ r.state.hmi_level = "FULL"
    /\ r.app \in Registered
    /\ regular[r.app].hmi_level # "FULL"

\* what the claims about the activation response say of one response
Exclusive == C1_AtMostOneFull /\ C2_OneAudiblePerClass
\* the pending record r answered with SUCCESS
Answered(r) ==
  /\ regular'[r.app] = r.state \/ postponed'[r.app] = <<r.state>>
       \/ r.app \notin Registered
  /\ ActivateAppResponse(r.corr_id, "SUCCESS")

\* C11: a SUCCESS response with a pending record applies the recorded state
\* to the recorded application as SetRegularState without an activation
\* request applies it, demotions and notifications included, and removes the
\* record, whatever happened since the request; at most one application is at
\* FULL and at most one of each class is audible afterwards.
C11_ResponseAppliesRecord ==
  [][\A r \in waiting_for_activate :
       Answered(r)
       => LET actual == SetRegularState(
                          [World EXCEPT !.waiting = @ \ {r}], r.app, r.state,
                          FALSE)
              expected == IF Diverted(r.app)
                          THEN [World EXCEPT !.postponed[r.app] = <<r.state>>]
                          ELSE ApplyRegularState(World, r.app, r.state)
          IN /\ SameEffect(actual, expected)
             /\ waiting_for_activate' = waiting_for_activate \ {r}
             /\ Exclusive => Exclusive']_vars

\* C12: a response with any result code other than SUCCESS changes no
\* Regular and no Current state, sends nothing and removes the pending
\* record, so that a SUCCESS response with the same correlation id after it
\* changes nothing either.
C12_ErrorDropsRecord ==
  \A r \in waiting_for_activate, code \in hmi_result :
    LET w == OnActivateAppResponse(World, r.corr_id, code)
    IN /\ w.regular = regular
       /\ w.hmi_states = hmi_states
       /\ w.postponed = postponed
       /\ \A app \in Registered :
            CurrentHmiState(w, app) = CurrentHmiState(World, app)
       /\ w.out = << >>
       /\ w.waiting = waiting_for_activate \ {r}
       /\ OnActivateAppResponse(w, r.corr_id, "SUCCESS") = w

\* an activation that would change its application is pending: it would be
\* applied by SUCCESS, and after REJECTED a SUCCESS applies nothing
C12_Witness ==
  \E r \in waiting_for_activate :
    /\ r.app \in Registered
    /\ OnActivateAppResponse(World, r.corr_id, "SUCCESS").regular[r.app]
         = r.state
    /\ regular[r.app] # r.state
    /\ LET w == OnActivateAppResponse(World, r.corr_id, "REJECTED")
       IN /\ r \notin w.waiting
          /\ OnActivateAppResponse(w, r.corr_id, "SUCCESS").regular = regular

\* the correlation ids a response can carry and the codes it can have
CorrelationIds == 1..(MaxPending + 1)
ResultCodes == hmi_result \cup {"SUCCESS"}
\* the world with one more pending record, of an application that is gone
WithRecordOf(app, corr_id, state) ==
  [World EXCEPT
     !.waiting = @ \cup {[corr_id |-> corr_id, app |-> app, state |-> state]}]

\* C13: a response, SUCCESS included, whose correlation id has no pending
\* record, or whose record names an application that is not registered,
\* sets no Regular state, sends nothing and leaves the pending records of
\* the other correlation ids as they are.
C13_UnknownResponseDropped ==
  \A corr_id \in CorrelationIds, code \in ResultCodes :
    (\A r \in waiting_for_activate : r.corr_id # corr_id)
    => /\ OnActivateAppResponse(World, corr_id, code) = World
       /\ \A app \in AppIds \ Registered :
            LET w == OnActivateAppResponse(
                       WithRecordOf(app, corr_id, FullState), corr_id, code)
            IN /\ w.regular = regular
               /\ w.hmi_states = hmi_states
               /\ w.postponed = postponed
               /\ w.out = << >>
               /\ w.waiting = waiting_for_activate

\* an activation is pending that SUCCESS would apply, and a SUCCESS with
\* another correlation id leaves the application and the record alone
C13_Witness ==
  \E r \in waiting_for_activate, corr_id \in CorrelationIds :
    /\ corr_id # r.corr_id
    /\ r.app \in Registered
    /\ OnActivateAppResponse(World, r.corr_id, "SUCCESS").regular[r.app]
         # regular[r.app]
    /\ LET w == OnActivateAppResponse(World, corr_id, "SUCCESS")
       IN w.regular = regular /\ r \in w.waiting

\* C14: OnAppUnregistered(app) drops every pending activation of app: each
\* pending record names a registered application in every reachable state,
\* the unregistration removes the records of app and no other, and a SUCCESS
\* response to a dropped record changes nothing and sends nothing.
C14_UnregisteredNotPending ==
  /\ [](\A r \in waiting_for_activate : r.app \in Registered)
  /\ [][\A app \in ControllerApps :
          OnAppUnregistered(app)
          => /\ waiting_for_activate'
                  = {r \in waiting_for_activate : r.app # app}
             /\ \A other \in Registered \ {app} :
                  /\ regular'[other] = regular[other]
                  /\ hmi_states'[other] = hmi_states[other]
             /\ \A r \in waiting_for_activate :
                  r.app = app
                  => (OnActivateAppResponse(World, r.corr_id, "SUCCESS")
                        = World)']_vars

\* an activation to FULL is pending while another application holds FULL:
\* the response would demote that application unless the record is dropped
C14_Witness ==
  \E r \in waiting_for_activate, other \in Registered :
    /\ r.app \in Registered \ {other}
    /\ regular[other].hmi_level = "FULL"
    /\ OnActivateAppResponse(World, r.corr_id, "SUCCESS").regular[other]
         # regular[other]
    /\ ENABLED OnAppUnregistered(r.app)

\* what the claims about OnStateChanged count in the messages of one call
Sent(out, name, app) ==
  Cardinality({i \in 1..Len(out) : out[i].name = name /\ out[i].app = app})
SentExactly(out, msg) ==
  /\ Sent(out, msg.name, msg.app) = 1
  /\ \E i \in 1..Len(out) : out[i] = msg
ValidStates(app) ==
  IF IsAudioApplication(app)
  THEN valid_states_for_audio_app
  ELSE valid_states_for_not_audio_app
\* one status notification and one level change from old to new, or neither
ReportedOnce(out, app, old_state, new_state) ==
  IF old_state = new_state
  THEN /\ Sent(out, "SendHMIStatusNotification", app) = 0
       /\ Sent(out, "OnHMILevelChanged", app) = 0
  ELSE /\ SentExactly(out, SendHMIStatusNotification(app))
       /\ SentExactly(out, OnHMILevelChanged(app, old_state.hmi_level,
                                             new_state.hmi_level))

\* C15: OnStateChanged(app, old, new) sends exactly one HMI status
\* notification and exactly one level change (old level, new level) when old
\* and new differ in level, audio, video or system context, and neither when
\* the four fields are equal; a temporary state that changes the tag of the
\* Current state and none of its four fields is reported by nothing.
C15_ReportedIffChanged ==
  \A app \in Registered :
    LET old_state == CurrentHmiState(World, app)
    IN /\ \A new_state \in ValidStates(app) \cup {old_state} :
            ReportedOnce(OnStateChanged(World, app, old_state, new_state).out,
                         app, old_state, new_state)
       /\ \A state_id \in StateID :
            LET w == HMIStateStarted(World, app, state_id)
            IN ReportedOnce(w.out, app, old_state, CurrentHmiState(w, app))

\* under a temporary state one application has a Current state that differs
\* from its Regular state, and another one only has the new tag
C15_Witness ==
  \E app1, app2 \in Registered :
    /\ hmi_states[app1] # << >>
    /\ hmi_states[app2] # << >>
    /\ CurrentHmiState(World, app1) # regular[app1]
    /\ CurrentHmiState(World, app2) = regular[app2]
    /\ \E state_id \in StateID :
         /\ ~HasState(hmi_states[app1], state_id)
         /\ HMIStateStarted(World, app1, state_id).out # << >>

\* the number of ResetDataInNone calls of OnStateChanged(app, old, new)
Resets(app, old_state, new_state) ==
  Sent(OnStateChanged(World, app, old_state, new_state).out,
       "ResetDataInNone", app)

\* C16 as stated: ResetDataInNone is invoked once for a transition of the
\* Current state to the level NONE from another level, and for no other
\* transition, in particular not when the level was NONE already.
C16_ResetOnEntryToNone ==
  \A app \in Registered :
    LET old_state == CurrentHmiState(World, app)
    IN \A new_state \in ValidStates(app) \cup {old_state} :
         Resets(app, old_state, new_state)
           = IF new_state.hmi_level = "NONE" /\ old_state.hmi_level # "NONE"
             THEN 1 ELSE 0

\* C17: for the ordered pairs (old, new) of valid states of a non-audio
\* application, OnStateChanged invokes ResetDataInNone once when old and new
\* differ and the new level is NONE, also when the old level is NONE and only
\* the system context differs, and never otherwise.
C17_ResetForEveryChangeToNone ==
  \A app \in Registered :
    ~IsAudioApplication(app)
    => \A old_state, new_state \in valid_states_for_not_audio_app :
         Resets(app, old_state, new_state)
           = IF new_state.hmi_level = "NONE" /\ old_state # new_state
             THEN 1 ELSE 0

\* a non-audio application is at NONE, and a state at NONE with another
\* system context resets its data as a state entered from FULL does
C17_Witness ==
  \E app \in Registered :
    /\ ~IsAudioApplication(app)
    /\ CurrentHmiState(World, app) = NoneState
    /\ \E new_state \in valid_states_for_not_audio_app :
         /\ new_state.hmi_level = "NONE"
         /\ new_state.system_context # "MAIN"
         /\ Resets(app, CurrentHmiState(World, app), new_state) = 1
         /\ Resets(app, FullState, new_state) = 1
         /\ Resets(app, new_state, new_state) = 0

\* a state of the tests with INVALID in the fields that `invalid` names
Invalidated(state, invalid) ==
  [field \in DOMAIN state |->
     IF field \in invalid THEN INVALID_ENUM ELSE state[field]]
\* the states with at least one INVALID field
InvalidStates ==
  {Invalidated(state, invalid) :
     state \in FixtureStates,
     invalid \in (SUBSET DOMAIN NoneState) \ {{}}}

\* C18: SetRegularState(app, s, .) with an INVALID field in s does nothing,
\* whatever the application's type and resuming flag: no Regular state is
\* set, nothing is postponed, no activation is requested, nothing is sent;
\* the state of the controller is unchanged.
C18_InvalidStateIgnored ==
  \A app \in Registered, state \in InvalidStates,
     send_activate_app \in BOOLEAN :
    SetRegularState(World, app, state, send_activate_app) = World

\* a resuming application under a temporary state, whose valid states are
\* postponed, and an application whose FULL state is applied or requested
C18_Witness ==
  \E app1, app2 \in Registered :
    /\ Diverted(app1)
    /\ SetRegularState(World, app1, FullState, FALSE).postponed[app1]
         = <<FullState>>
    /\ SetRegularState(World, app2, FullState, FALSE).regular[app2]
         # regular[app2]
    /\ SetRegularState(World, app2, FullState, TRUE).waiting
         # waiting_for_activate
    /\ common_invalid_states \subseteq InvalidStates
    /\ \A state \in common_invalid_states :
         /\ SetRegularState(World, app1, state, FALSE) = World
         /\ SetRegularState(World, app2, state, TRUE) = World

\* C19: SetRegularState for an application that is not registered, and
\* OnAppActivated or OnAppDeactivated with the id of no registered
\* application, change no application's state, create no pending record and
\* send nothing.
C19_UnknownAppIgnored ==
  \A app \in AppIds \ Registered :
    /\ \A state \in InputStates(app), send_activate_app \in BOOLEAN :
         SetRegularState(World, app, state, send_activate_app) = World
    /\ \A hmi_level \in HMILevel :
         SetRegularStateLevel(World, app, hmi_level) = World
    /\ OnEventOnAppActivated(World, app) = World
    /\ OnEventOnAppDeactivated(World, app) = World

\* an audio application at LIMITED that either event would change, beside
\* an application that is not registered
C19_Witness ==
  \E app1 \in Registered, app2 \in ControllerApps \ Registered :
    /\ regular[app1].hmi_level = "LIMITED"
    /\ waiting_for_activate = {}
    /\ OnEventOnAppActivated(World, app1).waiting # {}
    /\ OnEventOnAppDeactivated(World, app1).regular[app1] = BackgroundState
    /\ IsAudioApplication(app2)
    /\ OnEventOnAppActivated(World, app2) = World
    /\ SetRegularState(World, app2, FullAudibleState, TRUE) = World

\* the temporary state T started for every application and stopped again,
\* and the streaming state of one application started and stopped again
PushedThenPopped(state_id) ==
  LET pushed == StartForEachApplication(World, state_id, 1)
  IN PostponedForEachApplication(
       StopForEachApplication(pushed, state_id, 1), 1)
StreamedThenStopped(app) ==
  LET pushed == HMIStateStarted(World, app, StreamingStateFor(app))
  IN ApplyPostponedStateForApp(
       HMIStateStopped(pushed, app, StreamingStateFor(app)), app)
Restored(w) ==
  /\ w.regular = regular
  /\ \A app \in Registered :
       CurrentHmiState(w, app) = CurrentHmiState(World, app)

\* C20 as stated: in every reachable state and for every temporary state T,
\* starting T and then stopping it, with no SetRegularState in between,
\* leaves every application with the Current state it had before the start.
C20_EventSymmetry ==
  /\ \A state_id \in SystemStateIDs : Restored(PushedThenPopped(state_id))
  /\ \A app \in Registered : Restored(StreamedThenStopped(app))

\* C20 amended: the same for every temporary state T that is not active
\* before the start, whatever other temporary states are active; the start
\* of a state that is active already adds no layer, and its stop takes the
\* one layer away.
C20_EventSymmetryOfNewState ==
  /\ \A state_id \in SystemStateIDs :
       ~HasState(active_states, state_id)
         => Restored(PushedThenPopped(state_id))
  /\ \A app \in Registered :
       ~HasState(hmi_states[app], StreamingStateFor(app))
         => Restored(StreamedThenStopped(app))

\* a media application at FULL AUDIBLE is at BACKGROUND NOT_AUDIBLE during a
\* phone call that started on top of another temporary state, and has the
\* Current state it had before the call once the call stops
C20_Witness ==
  /\ "media_app" \in Registered
  /\ regular["media_app"] = FullAudibleState
  /\ Len(active_states) = 2
  /\ active_states[2] = "PHONE_CALL"
  /\ CurrentHmiState(World, "media_app") = BackgroundState
  /\ LET popped == PostponedForEachApplication(Popped("PHONE_CALL"), 1)
     IN /\ popped.hmi_states["media_app"] = <<active_states[1]>>
        /\ popped.regular = regular
        /\ CurrentHmiState(popped, "media_app")
             = ComposeState("media_app", FullAudibleState,
                            <<active_states[1]>>, attenuated_supported)
        /\ CurrentHmiState(popped, "media_app").hmi_level = "FULL"

\* one application of any type under interruptions that start and stop in
\* any order
MaxMixApps == 1
MixSystemStateIDs == {"VR_SESSION", "TTS_SESSION", "SAFETY_MODE", "PHONE_CALL"}
MixStateIDs == MixSystemStateIDs \cup {"NAVI_STREAMING"}
NextLayers ==
  \/ \E app \in AppIds, default_level \in DefaultHmiLevels :
       /\ CanRegister(MaxMixApps, FALSE)
       /\ OnApplicationRegistered(app, default_level, FALSE)
  \/ \E app \in AppIds :
       \E state \in ValidStates(app) : SetRegularStateCall(app, state, FALSE)
  \/ \E state_id \in MixSystemStateIDs :
       /\ HasState(active_states, state_id) \/ ActiveCount < MaxLayers
       /\ TempStateStarted(state_id)
  \/ \E state_id \in MixSystemStateIDs : TempStateStopped(state_id)
  \/ \E app \in AppIds :
       /\ app \in StreamingApps \/ ActiveCount < MaxLayers
       /\ OnVideoStreamingStarted(app)
  \/ \E app \in AppIds : OnVideoStreamingStopped(app)

SpecLayers == Init /\ [][NextLayers]_vars

\* C21: the Current state does not depend on the order in which two
\* interruptions arrived: for every application type, valid Regular state
\* and two different temporary states among VR_SESSION, TTS_SESSION,
\* SAFETY_MODE, NAVI_STREAMING and PHONE_CALL, with attenuation supported or
\* not, either stacking order composes the same four fields.
C21_OrderIndependent ==
  \A app \in Registered :
    /\ \A first, second \in MixStateIDs :
         ComposeState(app, regular[app], <<first, second>>,
                      attenuated_supported)
           = ComposeState(app, regular[app], <<second, first>>,
                          attenuated_supported)
    /\ Len(hmi_states[app]) = 2
         => CurrentHmiState(World, app)
              = ComposeState(app, regular[app],
                             <<hmi_states[app][2], hmi_states[app][1]>>,
                             attenuated_supported)

\* an audio application at FULL AUDIBLE under TTS and VR, where attenuation
\* is supported: TTS alone attenuates it, VR alone mutes it, both mute it
C21_Witness ==
  \E app \in Registered :
    /\ regular[app] = FullAudibleState
    /\ attenuated_supported
    /\ hmi_states[app] = <<"TTS_SESSION", "VR_SESSION">>
    /\ ComposeState(app, regular[app], <<"TTS_SESSION">>, attenuated_supported)
         # ComposeState(app, regular[app], <<"VR_SESSION">>,
                        attenuated_supported)
    /\ CurrentHmiState(World, app).audio_streaming_state = "NOT_AUDIBLE"

\* the number of layers of state_id in a stack
LayersOf(layers, state_id) ==
  Cardinality({i \in 1..Len(layers) : layers[i] = state_id})

\* C22: in every reachable state the stack of each registered application
\* has exactly one Regular layer, a state of the four fields, and at most one
\* layer of each temporary state id, also after a start event for a state
\* that is active already and after a stop event for one that is not.
C22_OneLayerPerStateID ==
  \A app \in Registered :
    /\ DOMAIN regular[app] = DOMAIN NoneState
    /\ \A i \in 1..Len(hmi_states[app]) : hmi_states[app][i] \in StateID
    /\ \A state_id \in StateID : LayersOf(hmi_states[app], state_id) <= 1

\* an application under a temporary state: a second start event of that
\* state adds nothing, and the stop of a state that is not active removes
\* nothing
C22_Witness ==
  \E app \in Registered, state_id \in SystemStateIDs :
    /\ hmi_states[app] = <<state_id>>
    /\ HasState(active_states, state_id)
    /\ StartForEachApplication(World, state_id, 1).hmi_states = hmi_states
    /\ \E other \in SystemStateIDs \ {state_id} :
         /\ ~HasState(active_states, other)
         /\ StopForEachApplication(World, other, 1).hmi_states = hmi_states

\* what the claims about the events say of the stacks after one step
StacksChange == hmi_states' # hmi_states \/ active_states' # active_states
OnlyStackOf(app) ==
  \A other \in AppIds \ {app} : hmi_states'[other] = hmi_states[other]
StreamingID(app) == IF is_navi(app) THEN "NAVI_STREAMING" ELSE "VIDEO_STREAMING"

\* C23: the start event of a system-wide temporary state leaves every
\* registered application with exactly one layer of that state, added on top
\* of its stack, and with the layers it had; the stop event removes exactly
\* that layer from every stack.  OnVideoStreamingStarted(app) and
\* OnVideoStreamingStopped(app) add and remove NAVI_STREAMING for a navi
\* application and VIDEO_STREAMING for any other, on the stack of app only.
C23_EventsChangeOneLayer ==
  [][StacksChange
     => /\ \A state_id \in SystemStateIDs :
             /\ (~HasState(active_states, state_id)
                   /\ TempStateStarted(state_id))
                => \A app \in Registered :
                     /\ hmi_states'[app] = Append(hmi_states[app], state_id)
                     /\ LayersOf(hmi_states'[app], state_id) = 1
             /\ (HasState(active_states, state_id)
                   /\ TempStateStopped(state_id))
                => \A app \in Registered :
                     /\ LayersOf(hmi_states[app], state_id) = 1
                     /\ LayersOf(hmi_states'[app], state_id) = 0
                     /\ \A other \in StateID \ {state_id} :
                          LayersOf(hmi_states'[app], other)
                            = LayersOf(hmi_states[app], other)
        /\ \A app \in Registered :
             /\ (~HasState(hmi_states[app], StreamingID(app))
                   /\ OnVideoStreamingStarted(app))
                => /\ hmi_states'[app]
                        = Append(hmi_states[app], StreamingID(app))
                   /\ OnlyStackOf(app)
             /\ (HasState(hmi_states[app], StreamingID(app))
                   /\ OnVideoStreamingStopped(app))
                => /\ hmi_states'[app]
                        = SelectSeq(hmi_states[app],
                                    LAMBDA id : id # StreamingID(app))
                   /\ OnlyStackOf(app)]_vars

\* two applications under a system-wide temporary state, one of them a navi
\* application that can start streaming
C23_Witness ==
  \E app1, app2 \in Registered, state_id \in SystemStateIDs :
    /\ app1 # app2
    /\ is_navi(app1) /\ ~is_navi(app2)
    /\ hmi_states[app1] = <<state_id>>
    /\ hmi_states[app2] = <<state_id>>
    /\ active_states = <<state_id>>
    /\ StopForEachApplication(World, state_id, 1).hmi_states
         = [app \in AppIds |-> << >>]

\* the ids IsStateActive is asked about
QueriedStateIDs == StateID \cup {"REGULAR", "CURRENT"}
OnSomeStack(state_id) ==
  \E app \in Registered : LayersOf(hmi_states[app], state_id) >= 1
\* a start event of one state does not make another state active
StartActivatesNoOther ==
  \A state_id \in SystemStateIDs :
    (StacksChange /\ TempStateStarted(state_id))
      => \A other \in StateID \ {state_id} :
           ~IsStateActive(other) => ~IsStateActive(other)'

\* C24 as stated: IsStateActive is true for REGULAR and CURRENT, true for a
\* temporary id exactly when some application's stack has a layer of that id,
\* false for every temporary id before any event, true for every id whose
\* start event was applied, and a VR_Started event does not make AUDIO_SOURCE
\* active.
C24_IsStateActive ==
  /\ [](/\ IsStateActive("REGULAR") /\ IsStateActive("CURRENT")
        /\ \A state_id \in StateID :
             IsStateActive(state_id) <=> OnSomeStack(state_id)
        /\ \A state_id \in SystemStateIDs :
             HasState(active_states, state_id) => IsStateActive(state_id))
  /\ \A state_id \in StateID : ~IsStateActive(state_id)
  /\ [][StartActivatesNoOther]_vars

\* C24: as above, and a system-wide state whose start event was applied is
\* active once an application is registered: with no application there is no
\* stack to hold the layer; an application whose streaming start was applied
\* has its streaming state active.
C24_IsStateActiveWithApplications ==
  /\ [](/\ IsStateActive("REGULAR") /\ IsStateActive("CURRENT")
        /\ \A state_id \in StateID :
             IsStateActive(state_id) <=> OnSomeStack(state_id)
        /\ \A state_id \in SystemStateIDs :
             (HasState(active_states, state_id) /\ Registered # {})
               <=> IsStateActive(state_id))
  /\ \A state_id \in StateID : ~IsStateActive(state_id)
  /\ [][/\ StartActivatesNoOther
        /\ \A app \in Registered :
             (StacksChange /\ OnVideoStreamingStarted(app))
               => IsStateActive(StreamingStateFor(app))']_vars

\* VR started for a registered application: VR_SESSION is active and
\* AUDIO_SOURCE is not
C24_Witness ==
  /\ Registered # {}
  /\ active_states = <<"VR_SESSION">>
  /\ IsStateActive("VR_SESSION")
  /\ ~IsStateActive("AUDIO_SOURCE")
  /\ \A app \in Registered : hmi_states[app] = <<"VR_SESSION">>

\* the end of the interruption state_id in the world w, replay included
Ended(w, state_id) ==
  PostponedForEachApplication(StopForEachApplication(w, state_id, 1), 1)
ValidInputStates(app) == {state \in InputStates(app) : IsValidHmiState(state)}

\* C25: the Postponed slot of an application holds at most one state; of two
\* SetRegularState calls postponed for the same application during one
\* interruption the second replaces the first without a notification, and the
\* end of the interruption applies the second state only: the outcome, the
\* notifications included, is that of the second call alone.
C25_SecondPostponedReplacesFirst ==
  /\ \A app \in AppIds : Len(postponed[app]) <= 1
  /\ \A app \in Registered :
       Diverted(app)
       => \A first, second \in ValidInputStates(app), flag \in BOOLEAN :
            LET w1 == SetRegularState(World, app, first, flag)
                w2 == SetRegularState(w1, app, second, flag)
                alone == SetRegularState(World, app, second, flag)
            IN /\ w1.postponed[app] = <<first>>
               /\ w2.postponed[app] = <<second>>
               /\ w2 = alone
               /\ w2.out = << >>
               /\ w2.regular = regular
               /\ Len(active_states) = 1
                  => LET last == Ended(w2, active_states[1])
                         stopped == StopForEachApplication(
                                      World, active_states[1], 1)
                     IN /\ last = Ended(alone, active_states[1])
                        /\ last.postponed[app] = << >>
                        /\ (\A other \in Registered \ {app} :
                              postponed[other] = << >>)
                           => last = SetRegularState(
                                       [stopped EXCEPT
                                          !.postponed[app] = << >>],
                                       app, second, FALSE)

\* a resuming application under one interruption whose slot holds a state
\* that a second call would replace and the end of the interruption apply
C25_Witness ==
  \E app \in Registered :
    /\ Diverted(app)
    /\ Len(active_states) = 1
    /\ postponed[app] = <<BackgroundState>>
    /\ regular[app] = NoneState
    /\ LET w2 == SetRegularState(World, app, FullState, FALSE)
           last == Ended(w2, active_states[1])
       IN /\ w2.postponed[app] = <<FullState>>
          /\ last.regular[app].hmi_level = "FULL"
          /\ last.postponed[app] = << >>

\* the world after an operation, its messages delivered
Delivered(w) == [w EXCEPT !.out = << >>]
Currents(w) == [app \in AppIds |-> CurrentHmiState(w, app)]

\* C26: SetRegularState(app, s, false) called a second time with the same
\* valid state, right after the first call, changes no Regular and no Current
\* state, no Postponed slot and no pending activation, and sends nothing: the
\* notifications for the target and for the demoted applications belong to
\* the first call.
C26_SecondCallChangesNothing ==
  \A app \in Registered : \A state \in ValidStates(app) :
    LET once == Delivered(SetRegularState(World, app, state, FALSE))
        twice == SetRegularState(once, app, state, FALSE)
    IN /\ twice.regular = once.regular
       /\ Currents(twice) = Currents(once)
       /\ twice.out = << >>
       /\ twice = once

\* a call that demotes another application and reports both changes; the
\* second call has nothing left to report
C26_Witness ==
  \E app, other \in Registered :
    /\ app # other
    /\ regular[other].hmi_level = "FULL"
    /\ regular[app].hmi_level # "FULL"
    /\ LET first == SetRegularState(World, app, FullState, FALSE)
       IN /\ Sent(first.out, "SendHMIStatusNotification", app) = 1
          /\ Sent(first.out, "SendHMIStatusNotification", other) = 1
          /\ first.regular[other].hmi_level # "FULL"
          /\ SetRegularState(Delivered(first), app, FullState, FALSE).out
               = << >>

\* ------------------------------------------------- callers' streamable states
\* the states of the four-value overload of SetRegularState, the streamable
\* fixtures among them
StreamableInputStates(app) ==
  InputStates(app)
    \cup (IF IsAudioApplication(app)
          THEN {FullAudibleStreamableState, LimitedAudibleStreamableState}
          ELSE {})

NextStreamable ==
  \/ \E app \in AppIds, default_level \in DefaultHmiLevels :
       /\ CanRegister(MaxApps, FALSE)
       /\ OnApplicationRegistered(app, default_level, FALSE)
  \/ \E app \in AppIds :
       \E state \in StreamableInputStates(app) :
         SetRegularStateCall(app, state, FALSE)
  \/ \E app \in AppIds :
       /\ app \in StreamingApps \/ ActiveCount < MaxActive
       /\ OnVideoStreamingStarted(app)
  \/ \E app \in AppIds : OnVideoStreamingStopped(app)

SpecStreamable == Init /\ [][NextStreamable]_vars

\* C27: an application that is neither navi nor projection has the video
\* state NOT_STREAMABLE in its Regular and in its Current state, whatever the
\* video state of the candidate passed to SetRegularState.
C27_NonVideoNotStreamable ==
  \A app \in Registered :
    ~IsVideoApplication(app)
    => /\ regular[app].video_streaming_state = "NOT_STREAMABLE"
       /\ CurrentHmiState(World, app).video_streaming_state = "NOT_STREAMABLE"

\* C28: no application that is not an audio application has the level
\* LIMITED in its Regular or in its Current state, also after the level-only
\* SetRegularState(app, LIMITED), after the demotions of the conflict
\* resolver and after OnAppDeactivated.
C28_NonAudioNeverLimited ==
  \A app \in Registered :
    ~IsAudioApplication(app)
    => /\ regular[app].hmi_level # "LIMITED"
       /\ CurrentHmiState(World, app).hmi_level # "LIMITED"

\* -------------------------------------------- registration under interruptions
\* the events sent before the registration
RegistrationStateIDs ==
  {"AUDIO_SOURCE", "PHONE_CALL", "DEACTIVATE_HMI", "EMBEDDED_NAVI"}

NextRegistered ==
  \/ \E app \in ControllerApps, default_level \in DefaultHmiLevels :
       /\ CanRegister(MaxApps, FALSE)
       /\ OnApplicationRegistered(app, default_level, FALSE)
  \/ \E app \in ControllerApps : OnAppUnregistered(app)
  \/ \E state_id \in RegistrationStateIDs : TempStateStarted(state_id)
  \/ \E state_id \in RegistrationStateIDs : TempStateStopped(state_id)

SpecRegistered == Init /\ [][NextRegistered]_vars

\* C29: OnApplicationRegistered(app, default_level) gives app a Regular state
\* of the level default_level and a stack with exactly one layer for each
\* system-wide temporary state that is active and none for any other; it
\* sends one HMI-status and one level-changed notification when the resulting
\* Current state differs from the state app had before, and nothing, no
\* ResetDataInNone either, when the two are equal; no other application
\* changes.  The registration step leaves exactly this state.
C29_RegisteredUnderActiveStates ==
  /\ [](\A app \in AppIds \ Registered, default_level \in DefaultHmiLevels :
          LET w == ApplicationRegistered(World, app, default_level)
              current == CurrentHmiState(w, app)
          IN /\ w.regular[app].hmi_level = default_level
             /\ \A state_id \in StateID :
                  LayersOf(w.hmi_states[app], state_id)
                    = IF HasState(active_states, state_id) THEN 1 ELSE 0
             /\ IF current # regular[app]
                THEN /\ Sent(w.out, "SendHMIStatusNotification", app) = 1
                     /\ Sent(w.out, "OnHMILevelChanged", app) = 1
                ELSE w.out = << >>
             /\ \A other \in AppIds \ {app} :
                  /\ w.regular[other] = regular[other]
                  /\ w.hmi_states[other] = hmi_states[other]
                  /\ Sent(w.out, "SendHMIStatusNotification", other) = 0)
  /\ [][\A app \in AppIds \ Registered :
          app \in Registered'
          => \E default_level \in DefaultHmiLevels :
               LET w == ApplicationRegistered(World, app, default_level)
               IN /\ regular' = w.regular
                  /\ hmi_states' = w.hmi_states]_vars

\* an application registered at BACKGROUND while the four states of the
\* registration test are active: four layers, one of each; a second
\* application registering now gets the four layers and, DEACTIVATE_HMI
\* holding its Current state at the state it had before, no notification
C29_Witness ==
  \E app \in Registered :
    /\ Len(active_states) = 4
    /\ hmi_states[app] = active_states
    /\ \A state_id \in RegistrationStateIDs :
         LayersOf(hmi_states[app], state_id) = 1
    /\ regular[app] = BackgroundState
    /\ \E other \in AppIds \ Registered :
         LET w == ApplicationRegistered(World, other, "BACKGROUND")
         IN /\ Len(w.hmi_states[other]) = 4
            /\ CurrentHmiState(w, other) = regular[other]
            /\ w.out = << >>

\* what an OnAppDeactivated event leaves of the applications it is not about
OthersUntouched(w, app) ==
  \A other \in AppIds \ {app} :
    /\ w.regular[other] = regular[other]
    /\ w.hmi_states[other] = hmi_states[other]
    /\ w.postponed[other] = postponed[other]
    /\ \A i \in 1..Len(w.out) : w.out[i].app # other
DeactivatedState(app) ==
  [regular[app] EXCEPT !.hmi_level = "BACKGROUND",
                       !.audio_streaming_state = "NOT_AUDIBLE"]

\* C30 as stated: OnAppDeactivated(app) leaves the Regular level of an
\* application at FULL or LIMITED at BACKGROUND; for an application at
\* BACKGROUND or NONE it changes nothing and sends nothing; no other
\* application is changed.
C30_DeactivatedToBackground ==
  \A app \in Registered :
    LET w == OnEventOnAppDeactivated(World, app)
    IN /\ IF CurrentHmiState(World, app).hmi_level \in {"FULL", "LIMITED"}
          THEN w.regular[app].hmi_level = "BACKGROUND"
          ELSE w = World
       /\ OthersUntouched(w, app)

\* C30: as above for an application whose SetRegularState calls are applied;
\* for a resuming application under a temporary state the BACKGROUND state
\* goes to its Postponed slot, its Regular state stays and nothing is sent.
C30_DeactivatedUnlessPostponed ==
  \A app \in Registered :
    LET w == OnEventOnAppDeactivated(World, app)
    IN /\ IF CurrentHmiState(World, app).hmi_level \in {"FULL", "LIMITED"}
          THEN IF Diverted(app)
               THEN w = [World EXCEPT
                           !.postponed[app] = <<DeactivatedState(app)>>]
               ELSE /\ w.regular[app] = DeactivatedState(app)
                    /\ w.waiting = waiting_for_activate
          ELSE w = World
       /\ OthersUntouched(w, app)

\* an application at FULL beside an audible one at LIMITED: the event takes
\* the first to BACKGROUND, reports it, and leaves the second
C30_Witness ==
  \E app, other \in Registered :
    /\ app # other
    /\ ~Diverted(app)
    /\ CurrentHmiState(World, app).hmi_level = "FULL"
    /\ regular[other] = LimitedAudibleState
    /\ LET w == OnEventOnAppDeactivated(World, app)
       IN /\ w.regular[app].hmi_level = "BACKGROUND"
          /\ Sent(w.out, "OnHMILevelChanged", app) = 1
          /\ w.regular[other] = LimitedAudibleState

\* ------------------------------------------------ the layers of one stack
\* the position of the layer state_id in the stack of app, 0 when absent
LayerAt(app, state_id) ==
  IF HasState(hmi_states[app], state_id)
  THEN CHOOSE i \in 1..Len(hmi_states[app]) : hmi_states[app][i] = state_id
  ELSE 0
\* the state composed of the Regular state and the first n layers of app
StateUpTo(app, n) ==
  ComposeState(app, regular[app], SubSeq(hmi_states[app], 1, n),
               attenuated_supported)
\* the state the layer state_id of app has for its parent
StateBelow(app, state_id) == StateUpTo(app, LayerAt(app, state_id) - 1)
\* the state the layer state_id of app shows
StateOf(app, state_id) == StateUpTo(app, LayerAt(app, state_id))

\* C31 as stated: under a PHONE_CALL layer the Current state of a navi
\* application has level LIMITED and audio NOT_AUDIBLE, that of a media
\* application that is not navi has level BACKGROUND and audio NOT_AUDIBLE,
\* and an application that is neither shows the state below the layer.
C31_PhoneCall ==
  \A app \in Registered :
    HasState(hmi_states[app], "PHONE_CALL")
    => LET current == CurrentHmiState(World, app)
       IN IF is_navi(app)
          THEN /\ current.hmi_level = "LIMITED"
               /\ current.audio_streaming_state = "NOT_AUDIBLE"
          ELSE IF is_media_application(app)
          THEN /\ current.hmi_level = "BACKGROUND"
               /\ current.audio_streaming_state = "NOT_AUDIBLE"
          ELSE StateOf(app, "PHONE_CALL") = StateBelow(app, "PHONE_CALL")

\* C31: the same for an application whose level below the layer is FULL or
\* LIMITED; a media or navi application at NONE or BACKGROUND keeps its level
\* under the PHONE_CALL layer and is NOT_AUDIBLE.  The layer changes neither
\* the video state nor the system context.
C31_PhoneCallFromStreamableLevel ==
  \A app \in Registered :
    HasState(hmi_states[app], "PHONE_CALL")
    => LET current == CurrentHmiState(World, app)
           below == StateBelow(app, "PHONE_CALL")
           shown == StateOf(app, "PHONE_CALL")
       IN /\ IF is_navi(app) \/ is_media_application(app)
             THEN /\ current.hmi_level
                       = IF below.hmi_level \in {"FULL", "LIMITED"}
                         THEN IF is_navi(app) THEN "LIMITED" ELSE "BACKGROUND"
                         ELSE below.hmi_level
                  /\ current.audio_streaming_state = "NOT_AUDIBLE"
             ELSE shown = below
          /\ shown.video_streaming_state = below.video_streaming_state
          /\ shown.system_context = below.system_context

\* a media and navi application at FULL AUDIBLE under a phone call: LIMITED
\* and NOT_AUDIBLE
C31_Witness ==
  /\ "media_navi_vc_app" \in Registered
  /\ regular["media_navi_vc_app"] = FullAudibleState
  /\ hmi_states["media_navi_vc_app"] = <<"PHONE_CALL">>
  /\ CurrentHmiState(World, "media_navi_vc_app")
       = CreateHmiState("LIMITED", "NOT_AUDIBLE", "NOT_STREAMABLE", "MAIN")

\* C32: under a VR_SESSION layer the Current state of every application has
\* audio NOT_AUDIBLE and system context VRSESSION, whatever the system
\* context of its Regular state.
C32_VRSession ==
  \A app \in Registered :
    HasState(hmi_states[app], "VR_SESSION")
    => LET current == CurrentHmiState(World, app)
       IN /\ current.audio_streaming_state = "NOT_AUDIBLE"
          /\ current.system_context = "VRSESSION"

\* C33 as stated: under a TTS_SESSION layer, with attenuation supported an
\* audio application at LIMITED or FULL has the Current audio ATTENUATED and
\* every other application NOT_AUDIBLE; with attenuation not supported every
\* application has NOT_AUDIBLE.
C33_TTSSession ==
  \A app \in Registered :
    HasState(hmi_states[app], "TTS_SESSION")
    => LET current == CurrentHmiState(World, app)
       IN current.audio_streaming_state
            = IF attenuated_supported /\ IsAudioApplication(app)
                   /\ current.hmi_level \in {"LIMITED", "FULL"}
              THEN "ATTENUATED"
              ELSE "NOT_AUDIBLE"

\* C33: the TTS_SESSION layer shows ATTENUATED exactly when attenuation is
\* supported and the state below it, of an audio application, is at LIMITED
\* or FULL with audio AUDIBLE or ATTENUATED; otherwise it shows NOT_AUDIBLE,
\* so an application that is NOT_AUDIBLE below the layer stays so.  The
\* other three fields are those below the layer.  While the layer is active
\* the Current audio is never AUDIBLE, and is NOT_AUDIBLE when attenuation is
\* not supported.
C33_TTSSessionOverAudible ==
  \A app \in Registered :
    HasState(hmi_states[app], "TTS_SESSION")
    => LET current == CurrentHmiState(World, app)
           below == StateBelow(app, "TTS_SESSION")
           shown == StateOf(app, "TTS_SESSION")
       IN /\ shown.audio_streaming_state
               = IF attenuated_supported /\ IsAudioApplication(app)
                      /\ below.hmi_level \in {"LIMITED", "FULL"}
                      /\ below.audio_streaming_state
                           \in {"AUDIBLE", "ATTENUATED"}
                 THEN "ATTENUATED"
                 ELSE "NOT_AUDIBLE"
          /\ shown = [below EXCEPT
                        !.audio_streaming_state = shown.audio_streaming_state]
          /\ current.audio_streaming_state # "AUDIBLE"
          /\ ~attenuated_supported
               => current.audio_streaming_state = "NOT_AUDIBLE"

\* attenuation supported: a media application at FULL AUDIBLE is attenuated
\* by the TTS session
C33_Witness ==
  /\ attenuated_supported
  /\ "media_app" \in Registered
  /\ regular["media_app"] = FullAudibleState
  /\ hmi_states["media_app"] = <<"TTS_SESSION">>
  /\ CurrentHmiState(World, "media_app")
       = CreateHmiState("FULL", "ATTENUATED", "NOT_STREAMABLE", "MAIN")

\* C34: a streaming layer (VIDEO_STREAMING or NAVI_STREAMING) on an
\* application that is not navi gives a Current level of at most BACKGROUND
\* with audio NOT_AUDIBLE and video NOT_STREAMABLE, as does the
\* NaviStreamingHmiState of such an application over its Regular state; on a
\* navi application the layer shows the state below it in all four fields.
C34_Streaming ==
  \A app \in Registered :
    /\ \A state_id \in StreamingStateIDs :
         HasState(hmi_states[app], state_id)
         => IF is_navi(app)
            THEN StateOf(app, state_id) = StateBelow(app, state_id)
            ELSE LET current == CurrentHmiState(World, app)
                 IN /\ current.hmi_level \in {"NONE", "BACKGROUND"}
                    /\ current.audio_streaming_state = "NOT_AUDIBLE"
                    /\ current.video_streaming_state = "NOT_STREAMABLE"
    /\ LET shown == NaviStreamingHmiState(app, regular[app],
                                          attenuated_supported)
       IN IF is_navi(app)
          THEN shown = regular[app]
          ELSE /\ shown.hmi_level \in {"NONE", "BACKGROUND"}
               /\ shown.audio_streaming_state = "NOT_AUDIBLE"
               /\ shown.video_streaming_state = "NOT_STREAMABLE"

\* the layers that replace nothing but the audio
AudioOnlyStateIDs ==
  {"VR_SESSION", "SAFETY_MODE", "TTS_SESSION", "NAVI_STREAMING"}
\* the audio such a layer shows over the state parent of app
AudioUnder(state_id, app, parent, attenuated) ==
  IF state_id = "NAVI_STREAMING" /\ is_navi(app)
  THEN parent.audio_streaming_state
  ELSE IF state_id \in {"TTS_SESSION", "NAVI_STREAMING"}
            /\ attenuated /\ IsAudioApplication(app)
            /\ parent.hmi_level \in {"LIMITED", "FULL"}
            /\ parent.audio_streaming_state \in {"AUDIBLE", "ATTENUATED"}
  THEN "ATTENUATED"
  ELSE "NOT_AUDIBLE"

\* C35: for every application type and every valid parent state a
\* VR_SESSION, SAFETY_MODE, TTS_SESSION or NAVI_STREAMING layer shows the
\* parent's level, video state and system context, and the audio
\* NOT_AUDIBLE; except that TTS_SESSION and NAVI_STREAMING with attenuation
\* supported show ATTENUATED for an audio application at LIMITED or FULL
\* whose parent audio is AUDIBLE or ATTENUATED, and NAVI_STREAMING on a navi
\* application shows the parent's audio.  The layers of a stack show these
\* states over the states below them.
C35_AudioOnlyLayers ==
  \A app \in Registered :
    /\ \A parent \in ValidStates(app), state_id \in AudioOnlyStateIDs,
          attenuated \in BOOLEAN :
         ProjectState(state_id, app, parent, attenuated)
           = [parent EXCEPT
                !.audio_streaming_state =
                   AudioUnder(state_id, app, parent, attenuated)]
    /\ \A state_id \in AudioOnlyStateIDs :
         HasState(hmi_states[app], state_id)
         => StateOf(app, state_id)
              = [StateBelow(app, state_id) EXCEPT
                   !.audio_streaming_state =
                      AudioUnder(state_id, app, StateBelow(app, state_id),
                                 attenuated_supported)]

\* attenuation supported: a navi application streaming at LIMITED AUDIBLE
\* stays audible, and a TTS session over it attenuates it
C35_Witness ==
  /\ attenuated_supported
  /\ "navi_app" \in Registered
  /\ regular["navi_app"] = LimitedAudibleState
  /\ hmi_states["navi_app"] = <<"NAVI_STREAMING", "TTS_SESSION">>
  /\ StateOf("navi_app", "NAVI_STREAMING") = LimitedAudibleState
  /\ CurrentHmiState(World, "navi_app")
       = CreateHmiState("LIMITED", "ATTENUATED", "NOT_STREAMABLE", "MAIN")

\* the order of the levels and of the audio states
LevelOrder(hmi_level) ==
  CASE hmi_level = "NONE" -> 0
    [] hmi_level = "BACKGROUND" -> 1
    [] hmi_level = "LIMITED" -> 2
    [] hmi_level = "FULL" -> 3
AudioOrder(audio_streaming_state) ==
  CASE audio_streaming_state = "NOT_AUDIBLE" -> 0
    [] audio_streaming_state = "ATTENUATED" -> 1
    [] audio_streaming_state = "AUDIBLE" -> 2
\* state upper is not above state lower in level or in audio
NotRaised(upper, lower) ==
  /\ LevelOrder(upper.hmi_level) <= LevelOrder(lower.hmi_level)
  /\ AudioOrder(upper.audio_streaming_state)
       <= AudioOrder(lower.audio_streaming_state)

\* C36: no Temporary layer raises an application: for every application
\* type, every Temporary StateID and every valid state below the layer the
\* level of the layer is not higher (NONE < BACKGROUND < LIMITED < FULL) and
\* its audio not more audible (NOT_AUDIBLE < ATTENUATED < AUDIBLE) than
\* below; an application at NONE or BACKGROUND keeps its level under
\* PHONE_CALL, a FULL NOT_AUDIBLE application stays NOT_AUDIBLE under TTS
\* with attenuation supported, and each layer of a reachable stack is not
\* above the layer below it.
C36_NoLayerRaises ==
  \A app \in Registered :
    /\ \A parent \in ValidStates(app), state_id \in StateID,
          attenuated \in BOOLEAN :
         /\ NotRaised(ProjectState(state_id, app, parent, attenuated), parent)
         /\ state_id = "PHONE_CALL" /\ parent.hmi_level \in {"NONE", "BACKGROUND"}
            => ProjectState(state_id, app, parent, attenuated).hmi_level
                 = parent.hmi_level
         /\ state_id = "TTS_SESSION" /\ parent.hmi_level = "FULL"
              /\ parent.audio_streaming_state = "NOT_AUDIBLE"
            => ProjectState(state_id, app, parent, TRUE).audio_streaming_state
                 = "NOT_AUDIBLE"
    /\ \A n \in 1..Len(hmi_states[app]) :
         NotRaised(StateUpTo(app, n), StateUpTo(app, n - 1))
    /\ NotRaised(CurrentHmiState(World, app), regular[app])

\* a navi application at BACKGROUND under a phone call stays at BACKGROUND
C36_Witness ==
  /\ "navi_app" \in Registered
  /\ regular["navi_app"].hmi_level = "BACKGROUND"
  /\ hmi_states["navi_app"] = <<"PHONE_CALL">>
  /\ CurrentHmiState(World, "navi_app").hmi_level = "BACKGROUND"


\* resuming applications only, with requests postponed under interruptions
\* that start and stop
MaxReplayApps == 2
NextReplay ==
  \/ \E app \in ControllerApps, default_level \in DefaultHmiLevels :
       /\ Len(applications) < MaxReplayApps
       /\ OnApplicationRegistered(app, default_level, TRUE)
  \/ \E app \in ControllerApps :
       \E state \in InputStates(app) : SetRegularStateCall(app, state, FALSE)
  \/ \E state_id \in PostponingStateIDs :
       /\ HasState(active_states, state_id) \/ Len(active_states) < MaxLayers
       /\ TempStateStarted(state_id)
  \/ \E state_id \in PostponingStateIDs : TempStateStopped(state_id)

SpecReplay == Init /\ [][NextReplay]_vars

\* the interruptions still active once state_id has ended
RemainingStates(state_id) == RemoveHMIState(active_states, state_id)
\* the place of app in the order of registration
PlaceOf(app) == CHOOSE i \in 1..Len(applications) : applications[i] = app
\* the replay of the postponed states of the first n applications
RECURSIVE ReplayedThrough(_, _)
ReplayedThrough(w, n) ==
  IF n = 0
  THEN w
  ELSE ApplyPostponedStateForApp(ReplayedThrough(w, n - 1), applications[n])

\* C37: a postponed request is never lost: when one Temporary layer is
\* popped while another is still active and the application is still
\* resuming, the postponed state is afterwards applied as Regular or still
\* held in the Postponed slot; when the last Temporary layer is popped the
\* application's Regular state equals the postponed state.
C37_PostponedNeverLost ==
  \A app \in Registered :
    \A state_id \in PostponingStateIDs :
      (postponed[app] # << >> /\ HasState(active_states, state_id))
      => LET after == Ended(World, state_id)
         IN IF RemainingStates(state_id) # << >>
            THEN is_resuming[app]
                 => \/ after.regular[app] = postponed[app][1]
                    \/ after.postponed[app] = postponed[app]
            ELSE after.regular[app] = postponed[app][1]

\* C37 amended: when one Temporary layer is popped while another is still
\* active, the postponed state of a resuming application is still held in
\* the Postponed slot and its Regular state is as before; when the last
\* Temporary layer is popped the postponed states are replayed in the order
\* of registration: the replay of the application's state makes it the
\* Regular state and empties the slot, and the state is still the Regular
\* state after the pop unless the conflict resolver demoted the application
\* in the replay of an application registered after it; its level is then
\* not above the postponed level.
C37_PostponedAppliedInOrder ==
  \A app \in Registered :
    \A state_id \in PostponingStateIDs :
      (postponed[app] # << >> /\ HasState(active_states, state_id))
      => LET after == Ended(World, state_id)
             replayed == ReplayedThrough(Popped(state_id), PlaceOf(app))
         IN IF RemainingStates(state_id) # << >>
            THEN is_resuming[app]
                 => /\ after.postponed[app] = postponed[app]
                    /\ after.regular[app] = regular[app]
            ELSE /\ replayed.regular[app] = postponed[app][1]
                 /\ after.postponed[app] = << >>
                 /\ (\A i \in (PlaceOf(app) + 1)..Len(applications) :
                       postponed[applications[i]] = << >>)
                    => after.regular[app] = postponed[app][1]
                 /\ LevelOrder(after.regular[app].hmi_level)
                      <= LevelOrder(postponed[app][1].hmi_level)

\* two resuming applications have FULL states postponed under one phone
\* call; its end applies both in the order of registration, and the replay
\* of the second demotes the first
C37_Witness ==
  /\ Len(applications) = 2
  /\ active_states = <<"PHONE_CALL">>
  /\ \A app \in Registered :
       /\ is_resuming[app]
       /\ postponed[app] # << >>
       /\ postponed[app][1].hmi_level = "FULL"
  /\ LET after == Ended(World, "PHONE_CALL")
     IN /\ ReplayedThrough(Popped("PHONE_CALL"), 1).regular[applications[1]]
             = postponed[applications[1]][1]
        /\ after.regular[applications[2]] = postponed[applications[2]][1]
        /\ after.regular[applications[1]].hmi_level # "FULL"
        /\ \A app \in Registered : after.postponed[app] = << >>

\* the applications the messages of out are about
NotifiedApps(out) == {out[i].app : i \in 1..Len(out)}
\* the messages of out about the applications other than app come in the
\* order of registration, and the messages about app come after all of them
InResolverOrder(out, app) ==
  \A i, j \in 1..Len(out) :
    i < j => /\ out[i].app = app => out[j].app = app
             /\ (out[i].app # app /\ out[j].app # app)
                => PlaceOf(out[i].app) <= PlaceOf(out[j].app)

\* C38: within one applied SetRegularState the notifications for the
\* applications demoted by the conflict resolver are sent in the order of
\* registration and the target's own notifications after all of them; the
\* notifications of a second operation follow all those of the first.
C38_NotificationOrder ==
  \A app \in Registered :
    \A state \in InputStates(app) :
      LET first == SetRegularState(World, app, state, FALSE)
      IN /\ InResolverOrder(first.out, app)
         /\ \A other \in Registered :
              CurrentHmiState(first, other) # CurrentHmiState(World, other)
              <=> other \in NotifiedApps(first.out)
         /\ \A next \in Registered :
              \A next_state \in InputStates(next) :
                SetRegularState(first, next, next_state, FALSE).out
                  = first.out
                    \o SetRegularState(Delivered(first), next, next_state,
                                       FALSE).out

\* the application registered last goes to FULL AUDIBLE and the two
\* registered before it are demoted: first, second, then the target
C38_Witness ==
  /\ Len(applications) = 3
  /\ \E state \in InputStates(applications[3]) :
       LET out == SetRegularState(World, applications[3], state, FALSE).out
       IN /\ NotifiedApps(out) = Registered
          /\ out[1].app = applications[1]
          /\ out[Len(out)].app = applications[3]
          /\ \E i \in 1..Len(out) : out[i].app = applications[2]
          /\ InResolverOrder(out, applications[3])

\* --------------------------------------------------- remote control calls
MaxRankCalls == 3
\* the applications that have the extension of the remote control module
PolicyApps == ControllerApps
ControllerUnchanged ==
  UNCHANGED <<applications, regular, hmi_states, postponed, is_resuming,
              active_states, waiting_for_activate, attenuated_supported>>

ChangeDeviceRankCall(device_handle, rank) ==
  /\ Len(rank_calls) < MaxRankCalls
  /\ primary_device' = ChangeDeviceRank(primary_device, device_handle, rank)
  /\ rank_calls' = Append(rank_calls,
                          [device_handle |-> device_handle, rank |-> rank])
  /\ UNCHANGED is_on_driver_device
  /\ ControllerUnchanged

SetIsAppOnPrimaryDeviceCall(app) ==
  /\ is_on_driver_device'
       = SetIsAppOnPrimaryDevice(is_on_driver_device, app, primary_device)
  /\ UNCHANGED <<primary_device, rank_calls>>
  /\ ControllerUnchanged

NextPolicy ==
  \/ \E device_handle \in DeviceHandles, rank \in DeviceRanks :
       ChangeDeviceRankCall(device_handle, rank)
  \/ \E app \in PolicyApps : SetIsAppOnPrimaryDeviceCall(app)

SpecPolicy == Init /\ [][NextPolicy]_vars

\* the place of the last DRIVER rank among the calls, 0 when there is none
LastDriver ==
  LET places == {i \in 1..Len(rank_calls) : rank_calls[i].rank = "DRIVER"}
  IN IF places = {} THEN 0
     ELSE CHOOSE i \in places : \A j \in places : j <= i

\* C39: ChangeDeviceRank(device, rank) with rank "DRIVER" makes device the
\* primary device; with rank "PASSENGER" it resets the primary device when
\* device is the primary device and leaves it unchanged otherwise; with any
\* other rank it leaves it unchanged.  After any sequence of calls the
\* primary device is the device ranked DRIVER last, or none when that device
\* was ranked PASSENGER afterwards.
C39_PrimaryDevice ==
  /\ \A device_handle \in DeviceHandles :
       /\ ChangeDeviceRank(primary_device, device_handle, "DRIVER")
            = device_handle
       /\ ChangeDeviceRank(primary_device, device_handle, "PASSENGER")
            = IF primary_device = device_handle
              THEN NoDevice
              ELSE primary_device
       /\ ChangeDeviceRank(primary_device, device_handle, "NONE")
            = primary_device
  /\ LastDriver > 0
     => LET driver == rank_calls[LastDriver].device_handle
        IN primary_device
             = IF \E j \in (LastDriver + 1)..Len(rank_calls) :
                    /\ rank_calls[j].rank = "PASSENGER"
                    /\ rank_calls[j].device_handle = driver
               THEN NoDevice
               ELSE driver

\* two devices were ranked DRIVER and the first of them PASSENGER after
\* that: the second is still the primary device
C39_Witness ==
  /\ Len(rank_calls) = 3
  /\ rank_calls[1].rank = "DRIVER"
  /\ rank_calls[2].rank = "DRIVER"
  /\ rank_calls[3].rank = "PASSENGER"
  /\ rank_calls[3].device_handle = rank_calls[1].device_handle
  /\ rank_calls[2].device_handle # rank_calls[1].device_handle
  /\ primary_device = rank_calls[2].device_handle


\* C40: after any sequence of ChangeDeviceRank and SetIsAppOnPrimaryDevice
\* calls every application that has been marked has is_on_driver_device
\* equal to (the application's device = the primary device), also when
\* ChangeDeviceRank changed or reset the primary device after the marking.
C40_FlagFollowsPrimaryDevice ==
  \A app \in PolicyApps :
    is_on_driver_device[app] # << >>
    => is_on_driver_device[app][1] = (device(app) = primary_device)
====
